---- MODULE Spec2Model ----
(***************************************************************************)
(* linear-cli: the import command (src/commands/import.js) reconciling a   *)
(* document of issues and sub-issues against a Linear workspace, with the  *)
(* API client (src/api.js) and the remote service it talks to.             *)
(*                                                                         *)
(* Strings are sequences of character codes, so that toLowerCase is        *)
(* computed and not assumed.  An absent (undefined / null) string field is *)
(* the empty string <<>>: every test the code makes on such a field is a   *)
(* truthiness test, which the two pass alike.                              *)
(***************************************************************************)
EXTENDS Integers, Sequences, FiniteSets, TLC

-----------------------------------------------------------------------------
(* Bounds of the model *)

\* most nodes (issues and sub-issues together) in a document drawn from a set
\* of nodes (the documents written out one by one have up to four)
MaxNodes == 2
\* import runs of the same document in one behaviour
MaxRuns == 2
\* remote calls that fail in one behaviour
MaxFaults == 1

-----------------------------------------------------------------------------
(* Strings *)

\* String.prototype.toLowerCase on one character: "A".."Z" -> "a".."z"
Lower(c) == IF c \in 65..90 THEN c + 32 ELSE c

toLowerCase(s) == [k \in DOMAIN s |-> Lower(s[k])]

\* decimal digits of a natural number, as the server prints issue numbers
RECURSIVE Digits(_)
Digits(n) == IF n < 10 THEN <<48 + n>> ELSE Digits(n \div 10) \o <<48 + (n % 10)>>

\* JavaScript truthiness of a string-valued (or absent) field
Truthy(s) == s # <<>>

Absent == <<>>

\* "a", "A", "B"
Title_a == <<97>>
Title_A == <<65>>
Title_B == <<66>>
\* "d": a description given by the document; "o": one already on the remote
Desc_d == <<100>>
Desc_o == <<111>>
\* label names "bug", "Bug", "ui"
Label_bug == <<98, 117, 103>>
Label_Bug == <<66, 117, 103>>
Label_ui == <<117, 105>>
\* status names "todo" (the state "Todo" in another case) and "Nope" (no state)
Status_todo == <<116, 111, 100, 111>>
Status_Nope == <<78, 111, 112, 101>>
\* "backlog" (the state "Backlog"), and "open" (a state of the other team only)
Status_backlog == <<98, 97, 99, 107, 108, 111, 103>>
Status_open == <<111, 112, 101, 110>>
\* team names a document may give: "t" (the key), "TEAM" (the name), "x" (no team)
TeamName_t == <<116>>
TeamName_TEAM == <<84, 69, 65, 77>>
TeamName_x == <<120>>
\* project names a document may give: "p" (the project "P") and "q" (no project)
Project_p == <<112>>
Project_q == <<113>>
\* assignees a node may name: "A@B" (the email of Ann), "BOB" (a deactivated user)
Assignee_AB == <<65, 64, 66>>
Assignee_BOB == <<66, 79, 66>>

-----------------------------------------------------------------------------
(* The workspace: teams, workflow states *)

\* the team the document names: id "t1", name "Team", key "T"
Team == [id |-> <<116, 49>>, name |-> <<84, 101, 97, 109>>, key |-> <<84>>]
\* another team of the same workspace: id "t2", name "Other", key "O"
OtherTeam == [id |-> <<116, 50>>, name |-> <<79, 116, 104, 101, 114>>, key |-> <<79>>]

\* a third team, listed first, whose name is the key of OtherTeam: id "t0",
\* name "O", key "N"
NamesakeTeam == [id |-> <<116, 48>>, name |-> <<79>>, key |-> <<78>>]

Teams == <<NamesakeTeam, Team, OtherTeam>>

\* workflowStates of the workspace: "Backlog" and "Todo" of Team, "Open" of
\* OtherTeam, "Todo" of NamesakeTeam
AllWorkflowStates ==
  << [id |-> <<115, 49>>, name |-> <<66, 97, 99, 107, 108, 111, 103>>, team |-> Team.id],
     [id |-> <<115, 50>>, name |-> <<84, 111, 100, 111>>, team |-> Team.id],
     [id |-> <<115, 51>>, name |-> <<79, 112, 101, 110>>, team |-> OtherTeam.id],
     [id |-> <<115, 52>>, name |-> <<84, 111, 100, 111>>, team |-> NamesakeTeam.id] >>

\* api.js getWorkflowStates: all states, filtered to the team
getWorkflowStates(teamId) ==
  LET OfTeam(st) == st.team = teamId IN SelectSeq(AllWorkflowStates, OfTeam)

\* the workspace's projects: id "p1", name "P"
Projects == << [id |-> <<112, 49>>, name |-> <<80>>] >>

\* the workspace's users: Ann (id "u1", email "a@b"), and Bob (id "u2", email
\* "b@b"), who has been deactivated
Users ==
  << [id |-> <<117, 49>>, name |-> <<65, 110, 110>>, displayName |-> <<97, 110, 110>>,
      email |-> <<97, 64, 98>>, active |-> TRUE],
     [id |-> <<117, 50>>, name |-> <<66, 111, 98>>, displayName |-> <<98, 111, 98>>,
      email |-> <<98, 64, 98>>, active |-> FALSE] >>

\* the state the server gives an issue created without stateId
DefaultStateOf(teamId) == getWorkflowStates(teamId)[1].id

-----------------------------------------------------------------------------
(* Objects with optional keys (a createIssue input, an updateIssue patch) *)

\* the key is set only when the code's condition holds
Opt(key, cond, val) == IF cond THEN key :> val ELSE <<>>

Has(obj, key) == key \in DOMAIN obj

Get(obj, key) == IF key \in DOMAIN obj THEN obj[key] ELSE Absent

-----------------------------------------------------------------------------
(* The remote service behind api.js *)

TeamKey(teamId) ==
  IF teamId = Team.id THEN Team.key
  ELSE IF teamId = OtherTeam.id THEN OtherTeam.key
  ELSE NamesakeTeam.key

\* ids the server hands out: "i<n>" for the n-th issue, "l<n>" for the n-th label
IssueId(n) == <<105>> \o Digits(n)
LabelId(n) == <<108>> \o Digits(n)

\* "<KEY>-<number>", the number counting the team's issues
IssueIdentifier(issues, teamId) ==
  TeamKey(teamId) \o <<45>>
    \o Digits(Cardinality({k \in DOMAIN issues : issues[k].team = teamId}) + 1)

\* index of the issue with this id in a sequence of issues, 0 when there is none
IndexOfId(issues, id) ==
  IF \E k \in DOMAIN issues : issues[k].id = id
  THEN CHOOSE k \in DOMAIN issues : issues[k].id = id
  ELSE 0

\* the issueCreate mutation: the server stores the fields the input carries
ServerCreateIssue(issues, input) ==
  [ id          |-> IssueId(Len(issues) + 1),
    identifier  |-> IssueIdentifier(issues, input.teamId),
    title       |-> input.title,
    team        |-> input.teamId,
    description |-> Get(input, "description"),
    projectId   |-> Get(input, "projectId"),
    labelIds    |-> Get(input, "labelIds"),
    stateId     |-> IF Has(input, "stateId") THEN input.stateId
                    ELSE DefaultStateOf(input.teamId),
    parent      |-> Get(input, "parentId"),
    priority    |-> IF Has(input, "priority") THEN <<input.priority>> ELSE Absent,
    estimate    |-> IF Has(input, "estimate") THEN <<input.estimate>> ELSE Absent,
    assignee    |-> Get(input, "assigneeId") ]

\* the issueUpdate mutation: only the keys of the input change
ServerUpdateIssue(issue, input) ==
  [ issue EXCEPT
      !.description = IF Has(input, "description") THEN input.description ELSE @,
      !.labelIds    = IF Has(input, "labelIds") THEN input.labelIds ELSE @,
      !.stateId     = IF Has(input, "stateId") THEN input.stateId ELSE @,
      !.parent      = IF Has(input, "parentId") THEN input.parentId ELSE @,
      !.title       = IF Has(input, "title") THEN input.title ELSE @,
      !.projectId   = IF Has(input, "projectId") THEN input.projectId ELSE @,
      !.team        = IF Has(input, "teamId") THEN input.teamId ELSE @,
      !.priority    = IF Has(input, "priority") THEN <<input.priority>> ELSE @,
      !.estimate    = IF Has(input, "estimate") THEN <<input.estimate>> ELSE @ ]

\* api.js createIssue / updateIssue return { id, identifier, title, url }
IssueResult(issue) ==
  [id |-> issue.id, identifier |-> issue.identifier, title |-> issue.title,
   parent |-> Absent]

\* api.js createIssue: the remote issues after the call
createIssue(issues, input) == Append(issues, ServerCreateIssue(issues, input))

\* api.js updateIssue: the remote issues after the call
updateIssue(issues, issueId, input) ==
  [k \in DOMAIN issues |->
     IF issues[k].id = issueId THEN ServerUpdateIssue(issues[k], input) ELSE issues[k]]

\* api.js createLabel: the label the server adds, scoped to the team
createLabel(labels, name, teamId) ==
  [id |-> LabelId(Len(labels) + 1), name |-> name, team |-> teamId]

\* api.js getTeamLabels: labels of the team and workspace labels (no team)
getTeamLabels(labels, teamId) ==
  LET Mine(l) == ~Truthy(l.team) \/ l.team = teamId IN SelectSeq(labels, Mine)

\* the nodes { id, identifier, title, team, parent } of the issues query
IssueNode(issue) ==
  [id |-> issue.id, identifier |-> issue.identifier, title |-> issue.title,
   parent |-> issue.parent]

RECURSIVE MapIssueNodes(_)
MapIssueNodes(issues) ==
  IF issues = <<>> THEN <<>>
  ELSE <<IssueNode(Head(issues))>> \o MapIssueNodes(Tail(issues))

\* issues(first: 250): the page size of the one issues query
IssuesFirst == 250

\* a slip: the page is not filtered to the team
getTeamIssues_NoFilter(issues, ahead, teamId) ==
  LET room == IF ahead < IssuesFirst THEN IssuesFirst - ahead ELSE 0
  IN  MapIssueNodes(SubSeq(issues, 1, IF Len(issues) < room THEN Len(issues) ELSE room))

\* api.js getTeamIssues: the first page of the workspace's issues, filtered to the team
\* (ahead issues of other teams come before those of issues in the server's list)
getTeamIssues(issues, ahead, teamId) ==
  LET OfTeam(i) == i.team = teamId
      room == IF ahead < IssuesFirst THEN IssuesFirst - ahead ELSE 0
      page == SubSeq(issues, 1, IF Len(issues) < room THEN Len(issues) ELSE room)
  IN  MapIssueNodes(SelectSeq(page, OfTeam))

-----------------------------------------------------------------------------
(* import.js: the helpers of importCommand *)

\* Array.prototype.find as an index: the first position whose element passes, else 0
\* (passing is the set of positions whose element passes the test)
FindFirst(passing) ==
  IF passing # {}
  THEN CHOOSE k \in passing : \A m \in passing : k <= m
  ELSE 0

\* a slip: the dry-run test is left out, and the label is created
ResolveOneLabel_IgnoresDryRun(labelName, teamId, acc, dry) ==
  LET SameName(l) == toLowerCase(l.name) = toLowerCase(labelName)
      at == FindFirst({pos \in DOMAIN acc.existingLabels : SameName(acc.existingLabels[pos])})
      label == createLabel(acc.remoteLabels, labelName, teamId)
  IN  IF at # 0
      THEN [acc EXCEPT !.labelIds = Append(@, acc.existingLabels[at].id)]
      ELSE [ labelIds       |-> Append(acc.labelIds, label.id),
             existingLabels |-> Append(acc.existingLabels,
                                       [id |-> label.id, name |-> label.name,
                                        team |-> Absent]),
             remoteLabels   |-> Append(acc.remoteLabels, label),
             created        |-> Append(acc.created, label) ]

\* a slip: the created label is not pushed onto existingLabels
ResolveOneLabel_NoCache(labelName, teamId, acc, dry) ==
  LET SameName(l) == toLowerCase(l.name) = toLowerCase(labelName)
      at == FindFirst({pos \in DOMAIN acc.existingLabels : SameName(acc.existingLabels[pos])})
      label == createLabel(acc.remoteLabels, labelName, teamId)
  IN  IF at # 0
      THEN [acc EXCEPT !.labelIds = Append(@, acc.existingLabels[at].id)]
      ELSE IF dry
      THEN acc
      ELSE [ labelIds       |-> Append(acc.labelIds, label.id),
             existingLabels |-> acc.existingLabels,
             remoteLabels   |-> Append(acc.remoteLabels, label),
             created        |-> Append(acc.created, label) ]

\* one turn of the loop of resolveLabelIds; acc holds labelIds, the session's
\* existingLabels, the remote labels and the createLabel calls made so far
ResolveOneLabel(labelName, teamId, acc, dry) ==
  LET SameName(l) == toLowerCase(l.name) = toLowerCase(labelName)
      at == FindFirst({pos \in DOMAIN acc.existingLabels : SameName(acc.existingLabels[pos])})
  IN  IF at # 0
      THEN [acc EXCEPT !.labelIds = Append(@, acc.existingLabels[at].id)]
      ELSE IF dry
      THEN acc
      ELSE LET label == createLabel(acc.remoteLabels, labelName, teamId)
           IN  [ labelIds       |-> Append(acc.labelIds, label.id),
                 existingLabels |-> Append(acc.existingLabels,
                                           [id |-> label.id, name |-> label.name,
                                            team |-> Absent]),
                 remoteLabels   |-> Append(acc.remoteLabels, label),
                 created        |-> Append(acc.created, label) ]

RECURSIVE ResolveLabelLoop(_, _, _, _)
ResolveLabelLoop(labelNames, teamId, acc, dry) ==
  IF labelNames = <<>> THEN acc
  ELSE ResolveLabelLoop(Tail(labelNames), teamId,
                        ResolveOneLabel(Head(labelNames), teamId, acc, dry), dry)

\* resolveLabelIds: label names to ids, creating the labels that do not exist
resolveLabelIds(labelNames, teamId, cache, labels, dry) ==
  ResolveLabelLoop(labelNames, teamId,
                   [labelIds |-> <<>>, existingLabels |-> cache,
                    remoteLabels |-> labels, created |-> <<>>], dry)

\* Array.prototype.join
RECURSIVE Join(_, _)
Join(strings, separator) ==
  IF strings = <<>> THEN <<>>
  ELSE IF Len(strings) = 1 THEN Head(strings)
  ELSE Head(strings) \o separator \o Join(Tail(strings), separator)

\* workflowStates.map((s) => s.name)
StateNames(states) == [k \in DOMAIN states |-> states[k].name]

\* `Status "${statusName}" not found. Available: ${available}`
StatusNotFound(statusName, states) ==
  <<83, 116, 97, 116, 117, 115, 32, 34>> \o statusName
    \o <<34, 32, 110, 111, 116, 32, 102, 111, 117, 110, 100, 46, 32, 65, 118, 97, 105, 108, 97, 98, 108, 101, 58, 32>>
    \o Join(StateNames(states), <<44, 32>>)

\* a slip: the name is compared as written, not in lower case
resolveStatusId_CaseSensitive(statusName, states) ==
  LET SameName(st) == st.name = statusName
      at == FindFirst({pos \in DOMAIN states : SameName(states[pos])})
  IN  IF ~Truthy(statusName) THEN [threw |-> FALSE, id |-> Absent, message |-> Absent]
      ELSE IF at = 0
      THEN [threw |-> TRUE, id |-> Absent, message |-> StatusNotFound(statusName, states)]
      ELSE [threw |-> FALSE, id |-> states[at].id, message |-> Absent]

\* resolveStatusId: null for no name, the state's id, or a throw listing the states
resolveStatusId(statusName, states) ==
  LET SameName(st) == toLowerCase(st.name) = toLowerCase(statusName)
      at == FindFirst({pos \in DOMAIN states : SameName(states[pos])})
  IN  IF ~Truthy(statusName) THEN [threw |-> FALSE, id |-> Absent, message |-> Absent]
      ELSE IF at = 0
      THEN [threw |-> TRUE, id |-> Absent, message |-> StatusNotFound(statusName, states)]
      ELSE [threw |-> FALSE, id |-> states[at].id, message |-> Absent]

\* a slip: the node's own status is looked at only when there is no default
effectiveStateId_DefaultFirst(issue, states, defaultId) ==
  IF Truthy(defaultId) THEN [threw |-> FALSE, id |-> defaultId, message |-> Absent]
  ELSE resolveStatusId(issue.status, states)

\* lines 192-194 and 264-266: the node's status, or else the default
effectiveStateId(issue, states, defaultId) ==
  IF Truthy(issue.status) THEN resolveStatusId(issue.status, states)
  ELSE [threw |-> FALSE, id |-> defaultId, message |-> Absent]

\* a slip: the parent id is not put in the input
buildIssueInput_NoParent(issue, teamId, projectId, labelIds, stateId, parentId) ==
  ("title" :> issue.title) @@ ("teamId" :> teamId)
    @@ Opt("description", Truthy(issue.description), issue.description)
    @@ Opt("projectId", Truthy(projectId), projectId)
    @@ Opt("labelIds", Len(labelIds) > 0, labelIds)
    @@ Opt("stateId", Truthy(stateId), stateId)
    @@ Opt("priority", issue.priority # Absent, Head(issue.priority))
    @@ Opt("estimate", issue.estimate # Absent, Head(issue.estimate))

\* buildIssueInput: the createIssue input of a node
buildIssueInput(issue, teamId, projectId, labelIds, stateId, parentId) ==
  ("title" :> issue.title) @@ ("teamId" :> teamId)
    @@ Opt("description", Truthy(issue.description), issue.description)
    @@ Opt("projectId", Truthy(projectId), projectId)
    @@ Opt("labelIds", Len(labelIds) > 0, labelIds)
    @@ Opt("stateId", Truthy(stateId), stateId)
    @@ Opt("parentId", Truthy(parentId), parentId)
    @@ Opt("priority", issue.priority # Absent, Head(issue.priority))
    @@ Opt("estimate", issue.estimate # Absent, Head(issue.estimate))

\* a slip: an identifier that matches nothing falls back to the title
findExistingIssue_TitleFallback(snapshot, issue, parentId) ==
  LET ByIdentifier(i) == toLowerCase(i.identifier) = toLowerCase(issue.identifier)
      ByTitle(i) == /\ toLowerCase(i.title) = toLowerCase(issue.title)
                    /\ IF Truthy(parentId) THEN i.parent = parentId
                       ELSE ~Truthy(i.parent)
  IN  IF Truthy(issue.identifier) /\ FindFirst({pos \in DOMAIN snapshot : ByIdentifier(snapshot[pos])}) # 0
      THEN FindFirst({pos \in DOMAIN snapshot : ByIdentifier(snapshot[pos])})
      ELSE FindFirst({pos \in DOMAIN snapshot : ByTitle(snapshot[pos])})

\* a slip: the title is matched whatever the parent (as before the parent test)
findExistingIssue_AnyParent(snapshot, issue, parentId) ==
  LET ByIdentifier(i) == toLowerCase(i.identifier) = toLowerCase(issue.identifier)
      ByTitle(i) == toLowerCase(i.title) = toLowerCase(issue.title)
  IN  IF Truthy(issue.identifier)
      THEN FindFirst({pos \in DOMAIN snapshot : ByIdentifier(snapshot[pos])})
      ELSE FindFirst({pos \in DOMAIN snapshot : ByTitle(snapshot[pos])})

\* findExistingIssue: by identifier if the node has one, otherwise by title under
\* the same parent; the index in existingIssues, 0 for no match
findExistingIssue(snapshot, issue, parentId) ==
  LET ByIdentifier(i) == toLowerCase(i.identifier) = toLowerCase(issue.identifier)
      ByTitle(i) == /\ toLowerCase(i.title) = toLowerCase(issue.title)
                    /\ IF Truthy(parentId) THEN i.parent = parentId
                       ELSE ~Truthy(i.parent)
  IN  IF Truthy(issue.identifier)
      THEN FindFirst({pos \in DOMAIN snapshot : ByIdentifier(snapshot[pos])})
      ELSE FindFirst({pos \in DOMAIN snapshot : ByTitle(snapshot[pos])})

\* a slip: labelIds is set even when the node resolved no label
RootUpdateInput_AlwaysLabels(issue, labelIds, stateId) ==
  Opt("description", Truthy(issue.description), issue.description)
    @@ ("labelIds" :> labelIds)
    @@ Opt("stateId", Truthy(stateId), stateId)

\* the updateInput of the root branch: description, labelIds, stateId
RootUpdateInput(issue, labelIds, stateId) ==
  Opt("description", Truthy(issue.description), issue.description)
    @@ Opt("labelIds", Len(labelIds) > 0, labelIds)
    @@ Opt("stateId", Truthy(stateId), stateId)

\* the updateInput of the sub-issue branch: the same, and parentId when the
\* snapshot's parent differs from the resolved parent (reparenting)
SubUpdateInput(subIssue, labelIds, stateId, existingSub, parentIssue) ==
  RootUpdateInput(subIssue, labelIds, stateId)
    @@ Opt("parentId",
           Truthy(parentIssue.id) /\ existingSub.parent # parentIssue.id,
           parentIssue.id)

\* the placeholder a dry run puts in place of a created issue ('dry-run-id')
DryRunId == <<100, 114, 121, 45, 114, 117, 110, 45, 105, 100>>

\* its identifier: 'DRY-1' for a root, 'DRY-X' for a sub-issue
DryRunIssue(title, isRoot) ==
  [id |-> DryRunId,
   identifier |-> <<68, 82, 89, 45>> \o (IF isRoot THEN <<49>> ELSE <<88>>),
   title |-> title, parent |-> Absent]

\* Array.isArray, and truthiness, of a JSON value given by its kind
IsArray(kind) == kind = "array"

TruthyKind(kind) == kind # "falsy"

\* utils.js validateImportData: a team, an array of issues, a title on every
\* issue, an array for every truthy subIssues of an issue, a title on every
\* sub-issue of an issue; TRUE when nothing is thrown
validateImportData(data) ==
  /\ Truthy(data.team)
  /\ TruthyKind(data.issuesKind) /\ IsArray(data.issuesKind)
  /\ \A a \in DOMAIN data.issues :
       /\ Truthy(data.issues[a].title)
       /\ TruthyKind(data.issues[a].subIssuesKind) =>
            /\ IsArray(data.issues[a].subIssuesKind)
            /\ \A b \in DOMAIN data.issues[a].subIssues :
                 Truthy(data.issues[a].subIssues[b].title)

\* a slip: only the key is compared
getTeamByName_KeyOnly(teamName) ==
  LET Named(t) == toLowerCase(t.key) = toLowerCase(teamName)
  IN  FindFirst({pos \in DOMAIN Teams : Named(Teams[pos])})

\* api.js getTeamByName: the first team whose name or key is the name, any case;
\* the index in Teams, 0 when the call throws `Team "${teamName}" not found`
getTeamByName(teamName) ==
  LET Named(t) == \/ toLowerCase(t.name) = toLowerCase(teamName)
                  \/ toLowerCase(t.key) = toLowerCase(teamName)
  IN  FindFirst({pos \in DOMAIN Teams : Named(Teams[pos])})

\* `Team "${teamName}" not found`
TeamNotFound(teamName) ==
  <<84, 101, 97, 109, 32, 34>> \o teamName \o <<34, 32, 110, 111, 116, 32, 102, 111, 117, 110, 100>>

\* a slip: a project that is not found is taken to be the first project
getProjectByName_FirstProject(projectName) ==
  LET Named(p) == toLowerCase(p.name) = toLowerCase(projectName)
      at == FindFirst({pos \in DOMAIN Projects : Named(Projects[pos])})
  IN  IF at = 0 THEN Projects[1].id ELSE Projects[at].id

\* api.js getProjectByName: the first project of the workspace with the name,
\* any case; its id, or null
getProjectByName(projectName) ==
  LET Named(p) == toLowerCase(p.name) = toLowerCase(projectName)
      at == FindFirst({pos \in DOMAIN Projects : Named(Projects[pos])})
  IN  IF at = 0 THEN Absent ELSE Projects[at].id

\* api.js getUsers: the active users
getUsers == LET Active(u) == u.active IN SelectSeq(Users, Active)

\* api.js findUserByNameOrEmail: the first user whose email, name or display
\* name is the identifier, any case; the index in users, 0 for none
findUserByNameOrEmail(users, identifier) ==
  LET lower == toLowerCase(identifier)
      Named(u) == \/ toLowerCase(u.email) = lower
                  \/ toLowerCase(u.name) = lower
                  \/ toLowerCase(u.displayName) = lower
  IN  IF ~Truthy(identifier) THEN 0
      ELSE FindFirst({pos \in DOMAIN users : Named(users[pos])})

\* the queries importCommand sends before the loop (lines 122-140), in order
StartQueries(data) ==
  <<"teams">> \o (IF Truthy(data.project) THEN <<"projects">> ELSE <<>>)
    \o <<"issueLabels", "workflowStates", "issues">>

-----------------------------------------------------------------------------
(* The documents and the workspaces the runs start from *)

\* the fields of a node other than its title and identifier
NoFields ==
  [description |-> Absent, status |-> Absent, labels |-> <<>>,
   priority |-> Absent, estimate |-> Absent, assignee |-> Absent]

FieldProfiles ==
  { NoFields,
    [description |-> Desc_d, status |-> Status_backlog, labels |-> <<Label_bug>>,
     priority |-> <<0>>, estimate |-> <<2>>, assignee |-> Assignee_AB],
    [description |-> Absent, status |-> Absent, labels |-> <<Label_Bug, Label_bug>>,
     priority |-> Absent, estimate |-> Absent, assignee |-> Assignee_BOB],
    [description |-> Absent, status |-> Status_open, labels |-> <<Label_ui>>,
     priority |-> Absent, estimate |-> Absent, assignee |-> Absent] }

\* a node of the document.  subIssuesKind tells what JSON value "subIssues" is:
\* "array" (subIssues holds its items; an absent key is taken as the empty
\* array, which the code treats alike), "falsy" (null, false, 0 or "") or
\* "other" (a truthy value that is no array)
Node(title, identifier, f) ==
  [title |-> title, identifier |-> identifier, description |-> f.description,
   status |-> f.status, labels |-> f.labels, priority |-> f.priority,
   estimate |-> f.estimate, assignee |-> f.assignee,
   subIssuesKind |-> "array", subIssues |-> <<>>]

\* "t-2": the identifier of the team's second issue, in lower case
Identifier_t2 == <<116, 45, 50>>

\* "o-1": the identifier of the first issue of OtherTeam, in lower case
Identifier_o1 == <<111, 45, 49>>

\* nodes that differ in what they are matched by
MatchNodes ==
  { Node(t, id, NoFields) : t \in {Title_a, Title_B}, id \in {Absent, Identifier_t2} }

\* nodes that differ in the fields they set
FieldNodes == { Node(Title_a, Absent, f) : f \in FieldProfiles }

SeqsUpTo(S, n) == UNION { [1..k -> S] : k \in 0..n }

\* a root of S with at most n sub-issues of S
RootsOf(S, n) ==
  { [r EXCEPT !.subIssues = subs] : r \in S, subs \in SeqsUpTo(S, n) }

\* the sequences of roots that hold at most n nodes in all
RECURSIVE IssueLists(_, _)
IssueLists(S, n) ==
  IF n = 0 THEN {<<>>}
  ELSE {<<>>} \cup
       UNION { { <<r>> \o rest : rest \in IssueLists(S, n - 1 - Len(r.subIssues)) }
               : r \in RootsOf(S, n - 1) }

\* issuesKind tells what JSON value "issues" is: "array", "falsy" (absent, null)
\* or "other" (a truthy value that is no array)
Document(issues, defaultStatus) ==
  [team |-> Team.key, project |-> Absent, defaultStatus |-> defaultStatus,
   issuesKind |-> "array", issues |-> issues]

\* two roots that each claim the issue "t-2" as their sub-issue
\* a hand-written document: a root whose first sub-issue names an issue by its
\* identifier and whose second has that issue's title
MovedSubIssueLists ==
  { << [Node(Title_a, Absent, NoFields) EXCEPT
          !.subIssues = << Node(Title_a, Identifier_t2, NoFields),
                           Node(Title_a, Absent, NoFields) >>] >> }

\* hand-written documents for team "T" that name an issue of OtherTeam by its
\* identifier, as a root and as a sub-issue
ForeignIdentifierLists ==
  { << Node(Title_a, Identifier_o1, NoFields) >>,
    << [Node(Title_a, Absent, NoFields) EXCEPT
          !.subIssues = << Node(Title_a, Identifier_o1, NoFields) >>] >> }

SharedSubIssueLists ==
  { << [Node(Title_a, Absent, NoFields) EXCEPT !.subIssues = <<Node(Title_a, Identifier_t2, NoFields)>>],
       [Node(Title_B, Absent, NoFields) EXCEPT !.subIssues = <<Node(t, Identifier_t2, NoFields)>>] >>
    : t \in {Title_a, Title_B} }

\* an issue as the server holds it before the first run
SeedIssue(issues, title, teamId, parentId) ==
  [ ServerCreateIssue(issues,
      ("title" :> title) @@ ("teamId" :> teamId) @@ ("description" :> Desc_o)
        @@ Opt("parentId", Truthy(parentId), parentId))
    EXCEPT !.labelIds = <<>> ]

Seed1(teamId) == <<SeedIssue(<<>>, Title_A, teamId, Absent)>>

Seed2(teamId1, teamId2, under) ==
  LET first == Seed1(teamId1)
  IN  Append(first, SeedIssue(first, Title_A, teamId2,
                              IF under THEN first[1].id ELSE Absent))

\* the workspaces' issues before the first run: none, one, or two of which the
\* second may be a sub-issue of the first or an issue of the other team
SeedIssues ==
  { <<>>, Seed1(Team.id), Seed2(Team.id, Team.id, FALSE), Seed2(Team.id, Team.id, TRUE),
    Seed2(Team.id, OtherTeam.id, FALSE) }

\* the workspaces' labels before the first run
SeedLabels ==
  { <<>>,
    << [id |-> LabelId(1), name |-> Label_bug, team |-> Team.id] >>,
    << [id |-> LabelId(1), name |-> Label_Bug, team |-> Absent],
       [id |-> LabelId(2), name |-> Label_ui, team |-> OtherTeam.id] >> }

\* a node "a" with no other field, and the same with sub-issues
PlainNode == Node(Title_a, Absent, NoFields)

Under(node, subIssues) == [node EXCEPT !.subIssues = subIssues]

Untitled == [PlainNode EXCEPT !.title = Absent]

\* documents that break a rule of the format, at the first, second or third
\* level of the tree, and one of three levels that breaks none
MalformedDocuments ==
  { [Document(<<PlainNode>>, Absent) EXCEPT !.team = Absent],
    [Document(<<>>, Absent) EXCEPT !.issuesKind = "falsy"],
    [Document(<<>>, Absent) EXCEPT !.issuesKind = "other"],
    Document(<<Untitled>>, Absent),
    Document(<<PlainNode, Untitled>>, Absent),
    Document(<<Under(PlainNode, <<PlainNode, Untitled>>)>>, Absent),
    Document(<<[PlainNode EXCEPT !.subIssuesKind = "other"]>>, Absent),
    Document(<<[PlainNode EXCEPT !.subIssuesKind = "falsy"]>>, Absent),
    Document(<<Under(PlainNode, <<Under(PlainNode, <<Untitled>>)>>)>>, Absent),
    Document(<<Under(PlainNode, <<[PlainNode EXCEPT !.subIssuesKind = "other"]>>)>>, Absent),
    Document(<<Under(PlainNode, <<Under(PlainNode, <<Node(Title_B, Absent, NoFields)>>)>>)>>,
             Absent) }

\* documents that name the team and the project in several ways
NamedDocuments ==
  { [Document(<<Under(PlainNode, <<PlainNode>>)>>, Absent)
       EXCEPT !.team = team, !.project = proj]
      : team \in {Team.key, TeamName_t, TeamName_TEAM, TeamName_x, OtherTeam.name},
        proj \in {Absent, Project_p, Project_q} }

\* what a behaviour starts from: a document and a workspace
Scenarios ==
  { [doc |-> Document(issues, Absent), issues |-> seed, labels |-> <<>>, ahead |-> 0]
      : issues \in (IssueLists(MatchNodes, MaxNodes) \ {<<>>}) \cup SharedSubIssueLists
                     \cup MovedSubIssueLists,
        seed \in SeedIssues }
  \cup
  { [doc |-> Document(issues, ds), issues |-> seed, labels |-> labels, ahead |-> 0]
      : issues \in { <<r>> : r \in RootsOf(FieldNodes, MaxNodes - 1) },
        ds \in {Absent, Status_todo, Status_Nope},
        seed \in {<<>>, Seed2(Team.id, Team.id, TRUE)},
        labels \in SeedLabels }
  \cup
  { [doc |-> Document(issues, Absent), issues |-> seed, labels |-> <<>>, ahead |-> 0]
      : issues \in ForeignIdentifierLists,
        seed \in {Seed2(Team.id, OtherTeam.id, FALSE), Seed2(Team.id, OtherTeam.id, TRUE)} }
  \cup
  { [doc |-> d, issues |-> seed, labels |-> <<>>, ahead |-> 0]
      : d \in MalformedDocuments, seed \in {<<>>, Seed1(Team.id)} }
  \cup
  { [doc |-> d, issues |-> seed, labels |-> <<>>, ahead |-> 0]
      : d \in NamedDocuments, seed \in {<<>>, Seed2(Team.id, Team.id, TRUE)} }
  \cup
  { [doc |-> Document(<<PlainNode>>, Absent), issues |-> seed, labels |-> <<>>,
     ahead |-> ahead]
      : seed \in {Seed2(Team.id, Team.id, TRUE), Seed2(Team.id, OtherTeam.id, TRUE)},
        ahead \in {0, IssuesFirst - 1, IssuesFirst} }

-----------------------------------------------------------------------------
(* The state *)

VARIABLES
  doc,            \* the document being imported (the file's content)
  dryRun,         \* options.dryRun
  update,         \* options.update
  remoteIssues,   \* the workspace's issues, in the order the server lists them
  remoteLabels,   \* the workspace's labels
  issuesAhead,    \* how many issues of other teams the server lists ahead of those
  pc,             \* where importCommand is: idle, issue, subIssue, summary, done, error
  run,            \* the number of the run
  project,        \* the id of the project the document's project resolved to, or null
  existingLabels, \* the session's labels (fetched once, appended to)
  existingIssues, \* the session's snapshot of the team's issues
  defaultStateId, \* the state id of the document's defaultStatus, or null
  i,              \* index of the issue of data.issues being processed
  j,              \* index of the sub-issue of that issue being processed
  parentIssue,    \* the issue the current root resolved to
  createdIssues,
  updatedIssues,
  skippedIssues,
  error,          \* what main's catch has reported: the kind of error, its message
  faults,         \* how many more remote calls may fail in this behaviour
  queries,        \* history: the queries this run has sent to the server
  calls,          \* history: the mutations this run has sent to the server
  last,           \* history: what the last processed node was matched to
  prev,           \* history: how the run before this one ended, and the workspace it left
  exportedFrom,   \* history: the identifier and flag of the get that wrote the document
  statusArgs      \* history: the arguments of the status command and the issue's team field

vars ==
  << doc, dryRun, update, remoteIssues, remoteLabels, issuesAhead, pc, run, project,
     existingLabels, existingIssues, defaultStateId, i, j, parentIssue, createdIssues,
     updatedIssues, skippedIssues, error, faults, queries, calls, last, prev,
     exportedFrom, statusArgs >>

NoIssue == [id |-> Absent, identifier |-> Absent, title |-> Absent, parent |-> Absent]

NoNode == [path |-> <<0, 0>>, action |-> "none", found |-> 0, snapLen |-> 0,
           parentId |-> Absent]

NoError == [kind |-> "none", message |-> Absent]

\* the document was written by hand, not by get --output
NoExport == [identifier |-> Absent, children |-> FALSE]

\* no status command has been run
NoStatusArgs == [identifier |-> Absent, statusName |-> Absent, teamGiven |-> FALSE]

\* before the first run: no outcome, and the workspace as it is
NoRun(issues, labels) ==
  [outcome |-> "none", dryRun |-> FALSE, issues |-> issues, labels |-> labels,
   created |-> 0, updated |-> 0, skipped |-> 0, error |-> "none",
   createdPaths |-> {}]

Init ==
  \E sc \in Scenarios :
    /\ doc = sc.doc
    /\ remoteIssues = sc.issues
    /\ remoteLabels = sc.labels
    /\ issuesAhead = sc.ahead
    /\ dryRun \in BOOLEAN
    /\ update \in BOOLEAN
    /\ pc = "idle"
    /\ run = 1
    /\ project = Absent
    /\ existingLabels = <<>>
    /\ existingIssues = <<>>
    /\ defaultStateId = Absent
    /\ i = 0
    /\ j = 0
    /\ parentIssue = NoIssue
    /\ createdIssues = <<>>
    /\ updatedIssues = <<>>
    /\ skippedIssues = <<>>
    /\ error = NoError
    /\ faults = MaxFaults
    /\ queries = <<>>
    /\ calls = <<>>
    /\ last = NoNode
    /\ prev = NoRun(sc.issues, sc.labels)
    /\ exportedFrom = NoExport
    /\ statusArgs = NoStatusArgs

-----------------------------------------------------------------------------
(* get.js: the get command with --output *)

\* the name of the workflow state with this id
StateNameOf(stateId) ==
  LET at == FindFirst({pos \in DOMAIN AllWorkflowStates : AllWorkflowStates[pos].id = stateId})
  IN  IF at = 0 THEN Absent ELSE AllWorkflowStates[at].name

\* labels { nodes { name } } of an issue
LabelNamesOf(labels, labelIds) ==
  [k \in DOMAIN labelIds |->
     labels[FindFirst({pos \in DOMAIN labels : labels[pos].id = labelIds[k]})].name]

\* assignee { email } of an issue
AssigneeEmailOf(userId) ==
  LET at == FindFirst({pos \in DOMAIN Users : Users[pos].id = userId})
  IN  IF at = 0 THEN Absent ELSE Users[at].email

\* team { name } of an issue
TeamNameOf(teamId) ==
  IF teamId = Team.id THEN Team.name
  ELSE IF teamId = OtherTeam.id THEN OtherTeam.name
  ELSE NamesakeTeam.name

\* the fields the issue query of getIssueByIdentifier selects
IssueFields(issues, labels, k) ==
  [id |-> issues[k].id, identifier |-> issues[k].identifier, title |-> issues[k].title,
   description |-> issues[k].description, priority |-> issues[k].priority,
   estimate |-> issues[k].estimate, stateName |-> StateNameOf(issues[k].stateId),
   labelNames |-> LabelNamesOf(labels, issues[k].labelIds),
   assigneeEmail |-> AssigneeEmailOf(issues[k].assignee),
   teamName |-> TeamNameOf(issues[k].team)]

RECURSIVE ChildrenOf(_, _, _, _)
ChildrenOf(issues, labels, id, k) ==
  IF k > Len(issues) THEN <<>>
  ELSE (IF issues[k].parent = id THEN <<IssueFields(issues, labels, k)>> ELSE <<>>)
         \o ChildrenOf(issues, labels, id, k + 1)

\* api.js getIssueByIdentifier: the issue, with its children when asked for
getIssueByIdentifier(issues, labels, identifier, includeChildren) ==
  LET k == FindFirst({pos \in DOMAIN issues : issues[pos].identifier = identifier})
  IN  [issue |-> IssueFields(issues, labels, k),
       children |-> IF includeChildren THEN ChildrenOf(issues, labels, issues[k].id, 1)
                    ELSE <<>>]

\* priorityNames of formatSingleIssue: 'none', 'urgent', 'high', 'medium', 'low'
priorityNames ==
  << <<110, 111, 110, 101>>, <<117, 114, 103, 101, 110, 116>>, <<104, 105, 103, 104>>,
     <<109, 101, 100, 105, 117, 109>>, <<108, 111, 119>> >>

\* get.js formatSingleIssue: an issue as a node of an import document
formatSingleIssue(iss) ==
  [identifier |-> iss.identifier,
   title |-> iss.title,
   description |-> iss.description,
   status |-> iss.stateName,
   labels |-> iss.labelNames,
   priority |-> IF iss.priority # Absent /\ Head(iss.priority) # 0
                THEN <<priorityNames[Head(iss.priority) + 1]>> ELSE Absent,
   estimate |-> IF iss.estimate # Absent /\ Head(iss.estimate) # 0
                THEN iss.estimate ELSE Absent,
   assignee |-> iss.assigneeEmail,
   subIssuesKind |-> "array",
   subIssues |-> <<>>]

\* get.js formatIssueForExport: the document { team, issues: [mainIssue] }
formatIssueForExport(fetched, teamName) ==
  [team |-> teamName, project |-> Absent, defaultStatus |-> Absent,
   issuesKind |-> "array",
   issues |-> << [formatSingleIssue(fetched.issue) EXCEPT
                    !.subIssues = [k \in DOMAIN fetched.children |->
                                     formatSingleIssue(fetched.children[k])]] >>]

\* get <identifier> [--children] --output <file>, run on an issue of the
\* workspace before the file is imported: the file is overwritten
GetCommand ==
  /\ UNCHANGED statusArgs
  /\ pc = "idle"
  /\ run = 1
  /\ \E k \in DOMAIN remoteIssues : \E includeChildren \in BOOLEAN :
       LET fetched == getIssueByIdentifier(remoteIssues, remoteLabels,
                                           remoteIssues[k].identifier, includeChildren)
       IN  /\ doc' = formatIssueForExport(fetched, fetched.issue.teamName)
           /\ exportedFrom' = [identifier |-> remoteIssues[k].identifier,
                               children |-> includeChildren]
  /\ UNCHANGED << dryRun, update, remoteIssues, remoteLabels, issuesAhead, pc, run,
                  project, existingLabels, existingIssues, defaultStateId, i, j,
                  parentIssue, createdIssues, updatedIssues, skippedIssues, error,
                  faults, queries, calls, last, prev >>

-----------------------------------------------------------------------------
(* importCommand *)

\* history records of the mutations sent: the node they were sent for, the
\* input, the issue the node's parent resolved to, the issue before and after
LabelCalls(path, created) ==
  [k \in DOMAIN created |->
     [op |-> "createLabel", path |-> path, id |-> created[k].id,
      input |-> created[k].name, parentId |-> Absent,
      before |-> NoIssue, after |-> NoIssue]]

IssueCall(op, path, id, input, parentId, before, after) ==
  [op |-> op, path |-> path, id |-> id, input |-> input, parentId |-> parentId,
   before |-> before, after |-> after]

\* a slip: the roots are walked first, their sub-issues are not
NextPosition_RootsFirst(a, b) ==
  IF a < Len(doc.issues) THEN [pc |-> "issue", i |-> a + 1, j |-> 0]
  ELSE [pc |-> "summary", i |-> a, j |-> 0]

\* the loop's next position after the node at <<a, b>> (b = 0 for a root)
NextPosition(a, b) ==
  IF TruthyKind(doc.issues[a].subIssuesKind) /\ b < Len(doc.issues[a].subIssues)
  THEN [pc |-> "subIssue", i |-> a, j |-> b + 1]
  ELSE IF a < Len(doc.issues) THEN [pc |-> "issue", i |-> a + 1, j |-> 0]
  ELSE [pc |-> "summary", i |-> a, j |-> 0]

\* a slip: the loop catches what a node throws and goes on with the next node
Thrown_Continue(a, b) == NextPosition(a, b)

\* nothing in importCommand catches: what the node at <<a, b>> throws ends the
\* loop there and reaches main's catch, which exits with status 1
Thrown(a, b) == [pc |-> "error", i |-> a, j |-> b]

RemoteError == [kind |-> "remote", message |-> Absent]

\* lines 112-156: load, validate, resolve the team and the project, fetch
\* labels, states and issues once, resolve the default status
Start ==
  /\ UNCHANGED statusArgs
  /\ pc = "idle"
  /\ LET at == getTeamByName(doc.team)
         teamId == Teams[at].id
         ds == resolveStatusId(doc.defaultStatus, getWorkflowStates(teamId))
     IN  IF ~validateImportData(doc)
         THEN /\ pc' = "error"
              /\ error' = [kind |-> "validation", message |-> Absent]
              /\ UNCHANGED << queries, project, existingLabels, existingIssues,
                              defaultStateId, i, j >>
         ELSE IF at = 0
         THEN /\ pc' = "error"
              /\ error' = [kind |-> "team", message |-> TeamNotFound(doc.team)]
              /\ queries' = <<"teams">>
              /\ UNCHANGED << project, existingLabels, existingIssues,
                              defaultStateId, i, j >>
         ELSE /\ queries' = StartQueries(doc)
              /\ project' = IF Truthy(doc.project) THEN getProjectByName(doc.project)
                            ELSE Absent
              /\ existingLabels' = getTeamLabels(remoteLabels, teamId)
              /\ existingIssues' = getTeamIssues(remoteIssues, issuesAhead, teamId)
              /\ IF ds.threw
                 THEN /\ pc' = "error"
                      /\ error' = [kind |-> "status", message |-> ds.message]
                      /\ UNCHANGED << defaultStateId, i, j >>
                 ELSE /\ defaultStateId' = ds.id
                      /\ UNCHANGED error
                      /\ IF Len(doc.issues) = 0
                         THEN pc' = "summary" /\ UNCHANGED << i, j >>
                         ELSE pc' = "issue" /\ i' = 1 /\ j' = 0
  /\ UNCHANGED << doc, dryRun, update, remoteIssues, remoteLabels, issuesAhead, run,
                  parentIssue, createdIssues, updatedIssues, skippedIssues, faults,
                  calls, last, prev, exportedFrom >>

\* lines 122-140 when one of the queries fails (linearQuery throws): the
\* queries before it were sent, none after it is
StartFails ==
  /\ UNCHANGED statusArgs
  /\ pc = "idle"
  /\ faults > 0
  /\ validateImportData(doc)
  /\ \E failAt \in 1..Len(StartQueries(doc)) :
       /\ failAt > 1 => getTeamByName(doc.team) # 0
       /\ queries' = SubSeq(StartQueries(doc), 1, failAt)
  /\ pc' = "error"
  /\ error' = RemoteError
  /\ faults' = faults - 1
  /\ UNCHANGED << doc, dryRun, update, remoteIssues, remoteLabels, issuesAhead, run,
                  project, existingLabels, existingIssues, defaultStateId, i, j,
                  parentIssue, createdIssues, updatedIssues, skippedIssues, calls,
                  last, prev, exportedFrom >>

\* lines 177-245: one issue of data.issues
ProcessIssue ==
  /\ UNCHANGED statusArgs
  /\ pc = "issue"
  /\ LET issue == doc.issues[i]
         teamId == Teams[getTeamByName(doc.team)].id
         found == findExistingIssue(existingIssues, issue, Absent)
         existingParent == existingIssues[found]
         lab == resolveLabelIds(issue.labels, teamId, existingLabels, remoteLabels, dryRun)
         st == effectiveStateId(issue, getWorkflowStates(teamId), defaultStateId)
         labelCalls == LabelCalls(<<i, 0>>, lab.created)
         updateInput == RootUpdateInput(issue, lab.labelIds, st.id)
         parentInput == buildIssueInput(issue, teamId, project, lab.labelIds, st.id, Absent)
         before == remoteIssues[IndexOfId(remoteIssues, existingParent.id)]
         updated == updateIssue(remoteIssues, existingParent.id, updateInput)
         after == updated[IndexOfId(remoteIssues, existingParent.id)]
         createdAll == createIssue(remoteIssues, parentInput)
         created == createdAll[Len(createdAll)]
         next == NextPosition(i, 0)
         seen(action) == [path |-> <<i, 0>>, action |-> action, found |-> found,
                          snapLen |-> Len(existingIssues), parentId |-> Absent]
     IN  /\ existingLabels' = lab.existingLabels
         /\ remoteLabels' = lab.remoteLabels
         /\ IF st.threw
            THEN /\ pc' = Thrown(i, 0).pc /\ i' = Thrown(i, 0).i /\ j' = Thrown(i, 0).j
                 /\ error' = [kind |-> "status", message |-> st.message]
                 /\ calls' = calls \o labelCalls
                 /\ last' = seen("throw")
                 /\ UNCHANGED << remoteIssues, existingIssues, parentIssue,
                                 createdIssues, updatedIssues, skippedIssues >>
            ELSE /\ pc' = next.pc /\ i' = next.i /\ j' = next.j
                 /\ UNCHANGED error
                 /\ IF found # 0 /\ ~update
                    THEN /\ skippedIssues' = Append(skippedIssues, existingParent)
                         /\ parentIssue' = existingParent
                         /\ calls' = calls \o labelCalls
                         /\ last' = seen("skip")
                         /\ UNCHANGED << remoteIssues, existingIssues, createdIssues,
                                         updatedIssues >>
                    ELSE IF found # 0 /\ update
                    THEN /\ IF dryRun
                            THEN /\ parentIssue' = existingParent
                                 /\ calls' = calls \o labelCalls
                                 /\ UNCHANGED remoteIssues
                            ELSE /\ remoteIssues' = updated
                                 /\ parentIssue' = IssueResult(after)
                                 /\ calls' = (calls \o labelCalls)
                                      \o << IssueCall("updateIssue", <<i, 0>>,
                                              existingParent.id, updateInput, Absent, before, after) >>
                         /\ updatedIssues' = Append(updatedIssues, parentIssue')
                         /\ last' = seen("update")
                         /\ UNCHANGED << existingIssues, createdIssues, skippedIssues >>
                    ELSE /\ IF dryRun
                            THEN /\ parentIssue' = DryRunIssue(issue.title, TRUE)
                                 /\ calls' = calls \o labelCalls
                                 /\ UNCHANGED << remoteIssues, existingIssues >>
                            ELSE /\ remoteIssues' = createdAll
                                 /\ parentIssue' = IssueResult(created)
                                 /\ existingIssues' = Append(existingIssues, parentIssue')
                                 /\ calls' = (calls \o labelCalls)
                                      \o << IssueCall("createIssue", <<i, 0>>,
                                              created.id, parentInput, Absent, NoIssue, created) >>
                         /\ createdIssues' = Append(createdIssues, parentIssue')
                         /\ last' = seen("create")
                         /\ UNCHANGED << updatedIssues, skippedIssues >>
  /\ UNCHANGED << doc, dryRun, update, issuesAhead, run, project, defaultStateId,
                  faults, queries, prev, exportedFrom >>

\* lines 177-245 when a mutation fails (createLabel, updateIssue or createIssue
\* throws): the labels created before it stay, on the server and in
\* existingLabels, and nothing of the node is recorded
ProcessIssueFails ==
  /\ UNCHANGED statusArgs
  /\ pc = "issue"
  /\ faults > 0
  /\ LET issue == doc.issues[i]
         teamId == Teams[getTeamByName(doc.team)].id
         found == findExistingIssue(existingIssues, issue, Absent)
         lab == resolveLabelIds(issue.labels, teamId, existingLabels, remoteLabels, dryRun)
         st == effectiveStateId(issue, getWorkflowStates(teamId), defaultStateId)
         labelCalls == LabelCalls(<<i, 0>>, lab.created)
         mutations == Len(lab.created)
                        + (IF st.threw \/ dryRun \/ (found # 0 /\ ~update) THEN 0 ELSE 1)
     IN  \E failAt \in 1..mutations :
           LET made == IF failAt <= Len(lab.created) THEN failAt - 1
                       ELSE Len(lab.created)
           IN  /\ existingLabels' = SubSeq(lab.existingLabels, 1, Len(existingLabels) + made)
               /\ remoteLabels' = SubSeq(lab.remoteLabels, 1, Len(remoteLabels) + made)
               /\ calls' = calls \o SubSeq(labelCalls, 1, made)
               /\ last' = [path |-> <<i, 0>>, action |-> "fail", found |-> found,
                           snapLen |-> Len(existingIssues), parentId |-> Absent]
  /\ pc' = Thrown(i, 0).pc /\ i' = Thrown(i, 0).i /\ j' = Thrown(i, 0).j
  /\ error' = RemoteError
  /\ faults' = faults - 1
  /\ UNCHANGED << doc, dryRun, update, remoteIssues, issuesAhead, run, project,
                  existingIssues, defaultStateId, parentIssue, createdIssues,
                  updatedIssues, skippedIssues, queries, prev, exportedFrom >>

\* lines 249-331: one sub-issue of the current issue
ProcessSubIssue ==
  /\ UNCHANGED statusArgs
  /\ pc = "subIssue"
  /\ LET subIssue == doc.issues[i].subIssues[j]
         teamId == Teams[getTeamByName(doc.team)].id
         found == findExistingIssue(existingIssues, subIssue, parentIssue.id)
         existingSub == existingIssues[found]
         lab == resolveLabelIds(subIssue.labels, teamId, existingLabels, remoteLabels, dryRun)
         st == effectiveStateId(subIssue, getWorkflowStates(teamId), defaultStateId)
         labelCalls == LabelCalls(<<i, j>>, lab.created)
         updateInput == SubUpdateInput(subIssue, lab.labelIds, st.id, existingSub, parentIssue)
         subInput == buildIssueInput(subIssue, teamId, project, lab.labelIds, st.id,
                                     IF dryRun THEN Absent ELSE parentIssue.id)
         before == remoteIssues[IndexOfId(remoteIssues, existingSub.id)]
         updated == updateIssue(remoteIssues, existingSub.id, updateInput)
         after == updated[IndexOfId(remoteIssues, existingSub.id)]
         createdAll == createIssue(remoteIssues, subInput)
         created == createdAll[Len(createdAll)]
         next == NextPosition(i, j)
         seen(action) == [path |-> <<i, j>>, action |-> action, found |-> found,
                          snapLen |-> Len(existingIssues), parentId |-> parentIssue.id]
     IN  /\ existingLabels' = lab.existingLabels
         /\ remoteLabels' = lab.remoteLabels
         /\ IF st.threw
            THEN /\ pc' = Thrown(i, j).pc /\ i' = Thrown(i, j).i /\ j' = Thrown(i, j).j
                 /\ error' = [kind |-> "status", message |-> st.message]
                 /\ calls' = calls \o labelCalls
                 /\ last' = seen("throw")
                 /\ UNCHANGED << remoteIssues, existingIssues,
                                 createdIssues, updatedIssues, skippedIssues >>
            ELSE /\ pc' = next.pc /\ i' = next.i /\ j' = next.j
                 /\ UNCHANGED error
                 /\ IF found # 0 /\ ~update
                    THEN /\ skippedIssues' = Append(skippedIssues, existingSub)
                         /\ calls' = calls \o labelCalls
                         /\ last' = seen("skip")
                         /\ UNCHANGED << remoteIssues, existingIssues, createdIssues,
                                         updatedIssues >>
                    ELSE IF found # 0 /\ update
                    THEN /\ IF dryRun
                            THEN /\ calls' = calls \o labelCalls
                                 /\ UNCHANGED remoteIssues
                            ELSE /\ remoteIssues' = updated
                                 /\ calls' = (calls \o labelCalls)
                                      \o << IssueCall("updateIssue", <<i, j>>,
                                              existingSub.id, updateInput, parentIssue.id,
                                              before, after) >>
                         /\ updatedIssues' = Append(updatedIssues, existingSub)
                         /\ last' = seen("update")
                         /\ UNCHANGED << existingIssues, createdIssues, skippedIssues >>
                    ELSE /\ IF dryRun
                            THEN /\ createdIssues' =
                                      Append(createdIssues, DryRunIssue(subIssue.title, FALSE))
                                 /\ calls' = calls \o labelCalls
                                 /\ UNCHANGED << remoteIssues, existingIssues >>
                            ELSE /\ remoteIssues' = createdAll
                                 /\ createdIssues' = Append(createdIssues, IssueResult(created))
                                 /\ existingIssues' =
                                      Append(existingIssues,
                                             [IssueResult(created) EXCEPT !.parent = parentIssue.id])
                                 /\ calls' = (calls \o labelCalls)
                                      \o << IssueCall("createIssue", <<i, j>>,
                                              created.id, subInput, parentIssue.id,
                                              NoIssue, created) >>
                         /\ last' = seen("create")
                         /\ UNCHANGED << updatedIssues, skippedIssues >>
  /\ UNCHANGED << doc, dryRun, update, issuesAhead, run, project, defaultStateId,
                  parentIssue, faults, queries, prev, exportedFrom >>

\* lines 249-331 when a mutation fails
ProcessSubIssueFails ==
  /\ UNCHANGED statusArgs
  /\ pc = "subIssue"
  /\ faults > 0
  /\ LET subIssue == doc.issues[i].subIssues[j]
         teamId == Teams[getTeamByName(doc.team)].id
         found == findExistingIssue(existingIssues, subIssue, parentIssue.id)
         lab == resolveLabelIds(subIssue.labels, teamId, existingLabels, remoteLabels, dryRun)
         st == effectiveStateId(subIssue, getWorkflowStates(teamId), defaultStateId)
         labelCalls == LabelCalls(<<i, j>>, lab.created)
         mutations == Len(lab.created)
                        + (IF st.threw \/ dryRun \/ (found # 0 /\ ~update) THEN 0 ELSE 1)
     IN  \E failAt \in 1..mutations :
           LET made == IF failAt <= Len(lab.created) THEN failAt - 1
                       ELSE Len(lab.created)
           IN  /\ existingLabels' = SubSeq(lab.existingLabels, 1, Len(existingLabels) + made)
               /\ remoteLabels' = SubSeq(lab.remoteLabels, 1, Len(remoteLabels) + made)
               /\ calls' = calls \o SubSeq(labelCalls, 1, made)
               /\ last' = [path |-> <<i, j>>, action |-> "fail", found |-> found,
                           snapLen |-> Len(existingIssues), parentId |-> parentIssue.id]
  /\ pc' = Thrown(i, j).pc /\ i' = Thrown(i, j).i /\ j' = Thrown(i, j).j
  /\ error' = RemoteError
  /\ faults' = faults - 1
  /\ UNCHANGED << doc, dryRun, update, remoteIssues, issuesAhead, run, project,
                  existingIssues, defaultStateId, parentIssue, createdIssues,
                  updatedIssues, skippedIssues, queries, prev, exportedFrom >>

\* lines 335-372: the summary; the command returns
Finish ==
  /\ UNCHANGED statusArgs
  /\ pc = "summary"
  /\ pc' = "done"
  /\ UNCHANGED << doc, dryRun, update, remoteIssues, remoteLabels, issuesAhead, run,
                  project, existingLabels, existingIssues, defaultStateId, i, j,
                  parentIssue, createdIssues, updatedIssues, skippedIssues, error,
                  faults, queries, calls, last, prev, exportedFrom >>

\* the operator runs the command again on the same file: for real after a
\* preview (README: "Always run with --dry-run --update first"), else as before
Again ==
  /\ UNCHANGED statusArgs
  /\ pc \in {"done", "error"}
  /\ run < MaxRuns
  /\ pc' = "idle"
  /\ run' = run + 1
  /\ prev' = [outcome |-> pc, dryRun |-> dryRun, issues |-> remoteIssues,
              labels |-> remoteLabels, created |-> Len(createdIssues),
              updated |-> Len(updatedIssues), skipped |-> Len(skippedIssues),
              error |-> error.kind,
              createdPaths |-> { calls[k].path :
                                   k \in { m \in DOMAIN calls : calls[m].op = "createIssue" } }]
  /\ dryRun' = FALSE
  /\ project' = Absent
  /\ existingLabels' = <<>>
  /\ existingIssues' = <<>>
  /\ defaultStateId' = Absent
  /\ i' = 0
  /\ j' = 0
  /\ parentIssue' = NoIssue
  /\ createdIssues' = <<>>
  /\ updatedIssues' = <<>>
  /\ skippedIssues' = <<>>
  /\ error' = NoError
  /\ queries' = <<>>
  /\ calls' = <<>>
  /\ last' = NoNode
  /\ UNCHANGED << doc, update, remoteIssues, remoteLabels, issuesAhead, faults,
                  exportedFrom >>

Next ==
  \/ GetCommand
  \/ Start
  \/ StartFails
  \/ ProcessIssue
  \/ ProcessIssueFails
  \/ ProcessSubIssue
  \/ ProcessSubIssueFails
  \/ Finish
  \/ Again

Spec == Init /\ [][Next]_vars

-----------------------------------------------------------------------------
(* status.js: linear-cli status <identifier> <status> *)

\* the identifiers the command is given: of the workspace's issues, of no issue
\* ("T-9"), or none
StatusIdentifiers ==
  { IssueIdentifier(<<>>, Team.id), IssueIdentifier(Seed1(Team.id), Team.id),
    IssueIdentifier(<<>>, OtherTeam.id),
    <<84, 45, 57>>, Absent }

\* the status names the command is given
StatusNames == {Status_todo, Status_backlog, Status_open, Status_Nope, Absent}

UsageError == [kind |-> "usage", message |-> Absent]

IssueNotFound == [kind |-> "notFound", message |-> Absent]

TeamUndetermined == [kind |-> "team", message |-> Absent]

\* `Status "${statusName}" not found.`
StatusCommandNotFound(statusName) ==
  [kind |-> "status",
   message |-> <<83, 116, 97, 116, 117, 115, 32, 34>> \o statusName
                 \o <<34, 32, 110, 111, 116, 32, 102, 111, 117, 110, 100, 46>>]

\* line 58: { stateId: targetState.id }
StatusPatch(stateId, title) == "stateId" :> stateId

\* statusCommand, as far as its queries are answered; teamGiven is whether the
\* issue query's answer has a team with a key
StatusCommand ==
  /\ pc = "idle"
  /\ \E identifier \in StatusIdentifiers, statusName \in StatusNames, teamGiven \in BOOLEAN :
       LET k == FindFirst({pos \in DOMAIN remoteIssues :
                             remoteIssues[pos].identifier = identifier})
           issue == remoteIssues[k]
           teamKey == IF teamGiven THEN TeamKey(issue.team) ELSE Absent
           at == getTeamByName(teamKey)
           states == getWorkflowStates(Teams[at].id)
           target == FindFirst({pos \in DOMAIN states :
                                  toLowerCase(states[pos].name) = toLowerCase(statusName)})
           input == StatusPatch(states[target].id, issue.title)
           updated == updateIssue(remoteIssues, issue.id, input)
           exit(err, sent) == /\ pc' = "error"
                              /\ error' = err
                              /\ queries' = sent
                              /\ UNCHANGED << remoteIssues, calls >>
       IN  /\ statusArgs' = [identifier |-> identifier, statusName |-> statusName,
                             teamGiven |-> teamGiven]
           /\ IF ~Truthy(identifier) \/ ~Truthy(statusName)
              THEN exit(UsageError, <<>>)
              ELSE IF k = 0
              THEN exit(IssueNotFound, <<"issue">>)
              ELSE IF ~Truthy(teamKey)
              THEN exit(TeamUndetermined, <<"issue">>)
              ELSE IF at = 0
              THEN exit([kind |-> "team", message |-> TeamNotFound(teamKey)],
                        <<"issue", "teams">>)
              ELSE IF target = 0
              THEN exit(StatusCommandNotFound(statusName),
                        <<"issue", "teams", "workflowStates">>)
              ELSE /\ pc' = "done"
                   /\ queries' = <<"issue", "teams", "workflowStates">>
                   /\ remoteIssues' = updated
                   /\ calls' = << IssueCall("updateIssue", <<0, 0>>, issue.id, input,
                                            Absent, issue, updated[k]) >>
                   /\ UNCHANGED error
  /\ UNCHANGED << doc, dryRun, update, remoteLabels, issuesAhead, run, project,
                  existingLabels, existingIssues, defaultStateId, i, j, parentIssue,
                  createdIssues, updatedIssues, skippedIssues, faults, last, prev,
                  exportedFrom >>

\* statusCommand when one of its remote calls fails (linearQuery throws): the
\* calls before it were sent, none after it is, and the issue is as it was
StatusCommandFails ==
  /\ pc = "idle"
  /\ faults > 0
  /\ \E identifier \in StatusIdentifiers \ {Absent}, statusName \in StatusNames \ {Absent} :
       LET k == FindFirst({pos \in DOMAIN remoteIssues :
                             remoteIssues[pos].identifier = identifier})
           at == getTeamByName(TeamKey(remoteIssues[k].team))
           states == getWorkflowStates(Teams[at].id)
           target == FindFirst({pos \in DOMAIN states :
                                  toLowerCase(states[pos].name) = toLowerCase(statusName)})
           sent == <<"issue", "teams", "workflowStates", "issueUpdate">>
       IN  /\ statusArgs' = [identifier |-> identifier, statusName |-> statusName,
                             teamGiven |-> TRUE]
           /\ \E failAt \in 1..4 :
                /\ failAt > 1 => k # 0
                /\ failAt > 3 => target # 0
                /\ queries' = SubSeq(sent, 1, IF failAt > 3 THEN 3 ELSE failAt)
  /\ pc' = "error"
  /\ error' = RemoteError
  /\ faults' = faults - 1
  /\ UNCHANGED << doc, dryRun, update, remoteIssues, remoteLabels, issuesAhead, run,
                  project, existingLabels, existingIssues, defaultStateId, i, j,
                  parentIssue, createdIssues, updatedIssues, skippedIssues, calls,
                  last, prev, exportedFrom >>

\* the operator runs the status command again
StatusAgain ==
  /\ pc \in {"done", "error"}
  /\ run < MaxRuns
  /\ pc' = "idle"
  /\ run' = run + 1
  /\ prev' = [NoRun(remoteIssues, remoteLabels) EXCEPT !.outcome = pc, !.error = error.kind]
  /\ error' = NoError
  /\ queries' = <<>>
  /\ calls' = <<>>
  /\ statusArgs' = NoStatusArgs
  /\ UNCHANGED << doc, dryRun, update, remoteIssues, remoteLabels, issuesAhead, project,
                  existingLabels, existingIssues, defaultStateId, i, j, parentIssue,
                  createdIssues, updatedIssues, skippedIssues, faults, last,
                  exportedFrom >>

\* the workspaces the status command is run in
StatusInit ==
  \E seed \in SeedIssues \cup {Seed2(Team.id, OtherTeam.id, TRUE)} :
    /\ doc = Document(<<>>, Absent)
    /\ remoteIssues = seed
    /\ remoteLabels = <<>>
    /\ issuesAhead = 0
    /\ dryRun = FALSE
    /\ update = FALSE
    /\ pc = "idle"
    /\ run = 1
    /\ project = Absent
    /\ existingLabels = <<>>
    /\ existingIssues = <<>>
    /\ defaultStateId = Absent
    /\ i = 0
    /\ j = 0
    /\ parentIssue = NoIssue
    /\ createdIssues = <<>>
    /\ updatedIssues = <<>>
    /\ skippedIssues = <<>>
    /\ error = NoError
    /\ faults = MaxFaults
    /\ queries = <<>>
    /\ calls = <<>>
    /\ last = NoNode
    /\ prev = NoRun(seed, <<>>)
    /\ exportedFrom = NoExport
    /\ statusArgs = NoStatusArgs

StatusNext ==
  \/ StatusCommand
  \/ StatusCommandFails
  \/ StatusAgain

StatusSpec == StatusInit /\ [][StatusNext]_vars

-----------------------------------------------------------------------------
(* What the properties speak of *)

\* the node of the document at a path <<root index, sub-issue index or 0>>
NodeAt(path) ==
  IF path[2] = 0 THEN doc.issues[path[1]]
  ELSE doc.issues[path[1]].subIssues[path[2]]

IsChild(path) == path[2] # 0

\* the nodes importCommand walks: the issues and their sub-issues
RECURSIVE WalkedCount(_)
WalkedCount(issues) ==
  IF issues = <<>> THEN 0
  ELSE 1 + Len(Head(issues).subIssues) + WalkedCount(Tail(issues))

IssueCalls == { k \in DOMAIN calls : calls[k].op \in {"createIssue", "updateIssue"} }
CreateCalls == { k \in DOMAIN calls : calls[k].op = "createIssue" }
UpdateCalls == { k \in DOMAIN calls : calls[k].op = "updateIssue" }
LabelCreateCalls == { k \in DOMAIN calls : calls[k].op = "createLabel" }

\* the id of the team the document names (when it names one)
ResolvedTeamId == Teams[getTeamByName(doc.team)].id

\* this run and the one before it both ran for real, and both completed
SecondCompletedRun ==
  /\ pc = "done"
  /\ ~dryRun
  /\ prev.outcome = "done"
  /\ ~prev.dryRun

\* a node has been processed and was matched (or not) against the snapshot
Matched == last.action # "none"

\* the snapshot as it was when the last node was matched
SnapshotThen == SubSeq(existingIssues, 1, last.snapLen)

-----------------------------------------------------------------------------
(* C1 *)

\* C1 (as claimed): when a real import without update has completed and the same
\* document is imported again without update, the second run sends no
\* createIssue and records every node it processes as skipped.
C1_SecondRunOnlySkips ==
  (SecondCompletedRun /\ ~update) =>
     /\ CreateCalls = {}
     /\ Len(createdIssues) = 0
     /\ Len(skippedIssues) = WalkedCount(doc.issues)

-----------------------------------------------------------------------------
(* C2 *)

\* C2 (as claimed): when a real import with update has completed and the same
\* document is imported again with update, the workspace's issues (their set,
\* parents, descriptions, labels and states) end as the first run left them, and
\* no issue is created.
C2_SecondRunConverges ==
  (SecondCompletedRun /\ update) =>
     /\ remoteIssues = prev.issues
     /\ CreateCalls = {}

-----------------------------------------------------------------------------
(* C3 *)

\* C3: a node that carries an identifier is matched to the first issue of the
\* snapshot whose identifier equals it in lower case, whatever the titles, the
\* parents and the node's place in the tree; when no identifier is equal there
\* is no match (the title is not tried) and the node is created.
C3_IdentifierMatch ==
  (Matched /\ Truthy(NodeAt(last.path).identifier)) =>
     LET wanted == toLowerCase(NodeAt(last.path).identifier)
         same == { k \in DOMAIN SnapshotThen :
                     toLowerCase(SnapshotThen[k].identifier) = wanted }
     IN  /\ same = {} => last.found = 0 /\ last.action \in {"create", "throw", "fail"}
         /\ same # {} => /\ last.found \in same
                         /\ \A k \in same : last.found <= k
                         /\ last.action \in {"skip", "update", "throw", "fail"}

\* a root node is matched by identifier to a sub-issue whose identifier is
\* written in another case and whose title is not the node's
C3_Witness ==
  /\ Matched
  /\ ~IsChild(last.path)
  /\ last.found # 0
  /\ Truthy(NodeAt(last.path).identifier)
  /\ NodeAt(last.path).identifier # existingIssues[last.found].identifier
  /\ toLowerCase(NodeAt(last.path).title) # toLowerCase(existingIssues[last.found].title)
  /\ Truthy(existingIssues[last.found].parent)

-----------------------------------------------------------------------------
(* C4 *)

\* the issue of the workspace that the last node was matched to
MatchedRemote == remoteIssues[IndexOfId(remoteIssues, existingIssues[last.found].id)]

\* this run has moved the issue with this id under another parent
MovedThisRun(id) ==
  \E k \in UpdateCalls : calls[k].id = id /\ Has(calls[k].input, "parentId")

-----------------------------------------------------------------------------
(* C5 *)

\* C5 (as claimed): in a real import with update, an updateIssue sent for a
\* child node whose issue is, in the workspace, under another parent than the
\* issue the node's parent resolved to carries parentId = that issue's id, and
\* the issue is under it after the call.
C5_ReparentCarriesParentId ==
  (~dryRun /\ update) =>
     \A k \in UpdateCalls :
        (IsChild(calls[k].path) /\ calls[k].before.parent # calls[k].parentId) =>
           /\ Has(calls[k].input, "parentId")
           /\ calls[k].input.parentId = calls[k].parentId
           /\ calls[k].after.parent = calls[k].parentId

-----------------------------------------------------------------------------
(* C6 *)

\* C6 (as claimed): with update off, processing a node that matches an existing
\* issue sends no mutation: no createIssue, no updateIssue, no createLabel.
C6_SkipSendsNothing ==
  (Matched /\ last.action = "skip") =>
     \A k \in DOMAIN calls : calls[k].path # last.path

-----------------------------------------------------------------------------
(* C7 *)

OwnStatus(node) == Truthy(node.status)

OwnOrDefaultStatus(node) == Truthy(node.status) \/ Truthy(doc.defaultStatus)

\* what an updateIssue call may carry and change; withDefault tells whether the
\* document's defaultStatus counts as the node specifying a status
PartialPatch(k, withDefault) ==
  LET c == calls[k]
      node == NodeAt(c.path)
      StatusGiven(n) == IF withDefault THEN OwnOrDefaultStatus(n) ELSE OwnStatus(n)
  IN  /\ DOMAIN c.input \subseteq {"description", "labelIds", "stateId", "parentId"}
      /\ Has(c.input, "description") => Truthy(node.description)
      /\ Has(c.input, "labelIds") => node.labels # <<>>
      /\ Has(c.input, "stateId") => StatusGiven(node)
      /\ Has(c.input, "parentId") => IsChild(c.path)
      /\ ~StatusGiven(node) => c.after.stateId = c.before.stateId
      /\ node.labels = <<>> => c.after.labelIds = c.before.labelIds
      /\ ~Truthy(node.description) => c.after.description = c.before.description
      /\ c.after.title = c.before.title
      /\ c.after.priority = c.before.priority
      /\ c.after.estimate = c.before.estimate
      /\ c.after.projectId = c.before.projectId
      /\ c.after.team = c.before.team

\* C7 (as claimed): an updateIssue patch holds only description, labelIds,
\* stateId, parentId, each only when the node itself specifies the field; the
\* issue's status does not change when the node has no status.
C7_PatchOnlyOwnFields == \A k \in UpdateCalls : PartialPatch(k, FALSE)

\* C7 (amended): the same, except that stateId is carried, and the status changed,
\* also when the node has no status but the document has a defaultStatus.
C7_PatchOnlyGivenFields == \A k \in UpdateCalls : PartialPatch(k, TRUE)

\* an update of a node with no status, labels or description, under a document
\* with a defaultStatus: the patch is stateId alone and only the status changes
C7_Witness ==
  \E k \in UpdateCalls :
     /\ ~Truthy(NodeAt(calls[k].path).status)
     /\ NodeAt(calls[k].path).labels = <<>>
     /\ DOMAIN calls[k].input = {"stateId"}
     /\ calls[k].after.stateId # calls[k].before.stateId
     /\ calls[k].after.description = Desc_o

-----------------------------------------------------------------------------
(* C8 *)

\* C8: a dry run sends no createIssue, updateIssue or createLabel, and the
\* workspace's issues and labels are what they were when the run started.
C8_DryRunPurity ==
  dryRun => /\ calls = <<>>
            /\ remoteIssues = prev.issues
            /\ remoteLabels = prev.labels

\* a completed dry run with update that reported an update and met a label that
\* does not exist
C8_Witness ==
  /\ dryRun
  /\ update
  /\ pc = "done"
  /\ Len(updatedIssues) > 0
  /\ \E a \in DOMAIN doc.issues : \E l \in DOMAIN doc.issues[a].labels :
        \A e \in DOMAIN existingLabels :
           toLowerCase(existingLabels[e].name) # toLowerCase(doc.issues[a].labels[l])

-----------------------------------------------------------------------------
(* C9 *)

\* C9: in a real import, createLabel is sent at most once per label name in
\* lower case, and only for a name that no label of the team or of the
\* workspace had when the run started; two nodes that list the same name carry
\* the same label id in their create input or update patch.
C9_LabelCreatedOnce ==
  ~dryRun =>
     /\ \A k, m \in LabelCreateCalls :
           k # m => toLowerCase(calls[k].input) # toLowerCase(calls[m].input)
     /\ \A k \in LabelCreateCalls : \A l \in DOMAIN prev.labels :
           (prev.labels[l].team = Absent \/ prev.labels[l].team = ResolvedTeamId) =>
              toLowerCase(prev.labels[l].name) # toLowerCase(calls[k].input)
     /\ \A k, m \in IssueCalls :
           \A p \in DOMAIN NodeAt(calls[k].path).labels :
              \A q \in DOMAIN NodeAt(calls[m].path).labels :
                 toLowerCase(NodeAt(calls[k].path).labels[p])
                     = toLowerCase(NodeAt(calls[m].path).labels[q])
                 => /\ Has(calls[k].input, "labelIds")
                    /\ Has(calls[m].input, "labelIds")
                    /\ calls[k].input.labelIds[p] = calls[m].input.labelIds[q]

\* two nodes list the same missing label in different cases: one createLabel,
\* and both nodes carry its id
C9_Witness ==
  /\ ~dryRun
  /\ \E c \in LabelCreateCalls : \E k, m \in IssueCalls :
        /\ calls[k].path # calls[m].path
        /\ \E p \in DOMAIN NodeAt(calls[k].path).labels :
              /\ NodeAt(calls[k].path).labels[p] = Label_bug
              /\ calls[k].input.labelIds[p] = calls[c].id
        /\ \E q \in DOMAIN NodeAt(calls[m].path).labels :
              /\ NodeAt(calls[m].path).labels[q] = Label_Bug
              /\ calls[m].input.labelIds[q] = calls[c].id

-----------------------------------------------------------------------------
(* C10 *)

\* one root with one sub-issue, neither with an identifier, imported for real
\* into a team that has no issues
ScenarioA ==
  /\ Len(doc.issues) = 1
  /\ Len(doc.issues[1].subIssues) = 1
  /\ ~Truthy(doc.issues[1].identifier)
  /\ ~Truthy(doc.issues[1].subIssues[1].identifier)
  /\ getTeamByName(doc.team) # 0
  /\ \A k \in DOMAIN prev.issues : prev.issues[k].team # ResolvedTeamId
  /\ ~dryRun
  /\ pc = "done"

-----------------------------------------------------------------------------
(* C11 *)

\* how many nodes importCommand walks before the node at a path
PreorderBefore(path) == WalkedCount(SubSeq(doc.issues, 1, path[1] - 1)) + path[2]

\* the mutations this run has sent are in effect in the workspace: a created
\* issue, a created label, and the outcome of the last update of an issue
CallsStand ==
  \A k \in DOMAIN calls :
     IF calls[k].op = "createLabel"
     THEN \E l \in DOMAIN remoteLabels :
             remoteLabels[l].id = calls[k].id /\ remoteLabels[l].name = calls[k].input
     ELSE /\ IndexOfId(remoteIssues, calls[k].id) # 0
          /\ (\A m \in DOMAIN calls : (m > k /\ calls[m].id = calls[k].id) => m \notin IssueCalls)
               => remoteIssues[IndexOfId(remoteIssues, calls[k].id)] = calls[k].after

\* the run has ended in an error: it stopped at the node at <<i, j>> (before the
\* loop when i = 0), every node before it is reported and none after it is
AbortedAtNode ==
  /\ error.kind \in {"validation", "team"} => i = 0 /\ calls = <<>>
  /\ Len(createdIssues) + Len(updatedIssues) + Len(skippedIssues)
       = (IF i = 0 THEN 0 ELSE PreorderBefore(<<i, j>>))
  /\ \A k \in DOMAIN calls :
        \/ calls[k].path[1] < i
        \/ calls[k].path[1] = i /\ calls[k].path[2] <= j
  /\ CallsStand

\* C11: a failure (of validation, of a query, of a mutation, of the resolution
\* of the team or of a status) ends the run in an error, not in a report; the
\* run stops at the node that failed, the mutations sent before it stay in
\* effect, and nothing is sent afterwards: all that can follow is another run,
\* which starts from the workspace the aborted run left.
C11_FailFastNoRollback ==
  [][ /\ (error'.kind # "none") <=> (pc' = "error")
      /\ pc' = "error" => AbortedAtNode'
      /\ pc = "error" => /\ pc' = "idle"
                         /\ run' = run + 1
                         /\ remoteIssues' = remoteIssues
                         /\ remoteLabels' = remoteLabels
                         /\ calls' = <<>> /\ queries' = <<>> ]_vars

\* a createIssue fails for a sub-issue after the createIssue of its parent went
\* through, with nodes of the document still to come
C11_Witness ==
  /\ pc = "error"
  /\ error.kind = "remote"
  /\ j > 0
  /\ CreateCalls # {}
  /\ last.action = "fail"
  /\ Len(remoteIssues) = Len(prev.issues) + 1
  /\ PreorderBefore(<<i, j>>) + 1 < WalkedCount(doc.issues)

-----------------------------------------------------------------------------
(* C12 *)

\* a real run without update has completed after a real run that aborted
RerunAfterAbort ==
  /\ pc = "done"
  /\ ~dryRun
  /\ ~update
  /\ prev.outcome = "error"
  /\ ~prev.dryRun

\* C12 (as claimed): when a real import without update aborts and the same
\* document is then imported again to completion, the second run sends no
\* createIssue for a node whose createIssue went through in the aborted run.
C12_RerunCreatesNoDuplicate ==
  RerunAfterAbort => \A k \in CreateCalls : calls[k].path \notin prev.createdPaths

-----------------------------------------------------------------------------
(* C13 *)

\* the document lacks a team, or its issues are missing or no array, or a root
\* issue or a direct sub-issue has no title, or a subIssues value of a root
\* issue is present and no array
MalformedAtTwoLevels ==
  \/ ~Truthy(doc.team)
  \/ doc.issuesKind # "array"
  \/ \E a \in DOMAIN doc.issues :
        \/ ~Truthy(doc.issues[a].title)
        \/ doc.issues[a].subIssuesKind # "array"
        \/ \E b \in DOMAIN doc.issues[a].subIssues :
              ~Truthy(doc.issues[a].subIssues[b].title)

\* the run has failed in validation, before any query and any mutation
FailedBeforeAnyCall ==
  /\ pc = "error"
  /\ error.kind = "validation"
  /\ queries = <<>>
  /\ calls = <<>>
  /\ remoteIssues = prev.issues
  /\ remoteLabels = prev.labels

\* C13 (as claimed): the import of such a document fails before any remote call
\* is sent, in a dry run and in a real run alike.
C13_ValidationBeforeRemote ==
  (MalformedAtTwoLevels /\ pc # "idle") => FailedBeforeAnyCall

-----------------------------------------------------------------------------
(* C14 *)

\* every node of these trees, at any depth, has a title and a subIssues value
\* that is an array (or none)
RECURSIVE WellFormedNodes(_)
WellFormedNodes(nodes) ==
  \A k \in DOMAIN nodes :
     /\ Truthy(nodes[k].title)
     /\ nodes[k].subIssuesKind = "array"
     /\ WellFormedNodes(nodes[k].subIssues)

\* C14 (as claimed): validateImportData rejects a document in which any node,
\* at any depth, has no title or a subIssues value that is no array; a document
\* that an import has accepted has a title on every node.
C14_ValidationRecursive ==
  (pc # "idle" /\ error.kind # "validation") => WellFormedNodes(doc.issues)

-----------------------------------------------------------------------------
(* C15 *)

\* the workflow states of the team the document names
TeamStates == getWorkflowStates(ResolvedTeamId)

\* the team's states whose name equals this one in some letter case
StatesNamed(name) ==
  { k \in DOMAIN TeamStates : toLowerCase(TeamStates[k].name) = toLowerCase(name) }

UnknownStatus(name) == Truthy(name) /\ StatesNamed(name) = {}

Contains(s, part) ==
  \E k \in 0..(Len(s) - Len(part)) : SubSeq(s, k + 1, k + Len(part)) = part

\* the run has stopped on a status error whose message has the name of every
\* workflow state of the team
StatusAbort ==
  /\ pc = "error"
  /\ error.kind = "status"
  /\ \A k \in DOMAIN TeamStates : Contains(error.message, TeamStates[k].name)

\* the snapshot queries have all been answered
Fetched ==
  /\ pc # "idle"
  /\ getTeamByName(doc.team) # 0
  /\ queries = StartQueries(doc)
  /\ error.kind # "remote"

\* C15: a defaultStatus or a node status that names no workflow state of the
\* team in any letter case aborts the run with an error listing the names of
\* all the team's states, and nothing else raises that error; a status that
\* names a state in some letter case is sent as that state's id.
C15_StatusResolution ==
  /\ (Fetched /\ UnknownStatus(doc.defaultStatus))
       => (StatusAbort /\ last = NoNode /\ calls = <<>>)
  /\ last.action \notin {"none", "fail"}
       => (UnknownStatus(NodeAt(last.path).status) <=> last.action = "throw")
  /\ last.action = "throw" => StatusAbort
  /\ error.kind = "status"
       => (last.action = "throw" \/ UnknownStatus(doc.defaultStatus))
  /\ \A k \in IssueCalls :
       LET status == NodeAt(calls[k].path).status
       IN  Truthy(status)
             => /\ Has(calls[k].input, "stateId")
                /\ \E m \in StatesNamed(status) : calls[k].input.stateId = TeamStates[m].id

\* a sub-issue's status "open" names a state of another team only and stops the
\* run, after its parent's status "backlog" was sent as the id of "Backlog"
C15_Witness ==
  /\ StatusAbort
  /\ last.action = "throw"
  /\ NodeAt(last.path).status = Status_open
  /\ \E k \in CreateCalls :
       /\ NodeAt(calls[k].path).status = Status_backlog
       /\ calls[k].input.stateId = AllWorkflowStates[1].id

-----------------------------------------------------------------------------
(* C16 *)

\* the status name that counts for a node: its own, or else the document's default
EffectiveStatus(node) ==
  IF Truthy(node.status) THEN node.status ELSE doc.defaultStatus

\* C16: every create input and every update patch carries the state id of the
\* node's own status when it has one, else that of the document's defaultStatus
\* when there is one, else no stateId at all.
C16_EffectiveStatusOrder ==
  \A k \in IssueCalls :
    LET status == EffectiveStatus(NodeAt(calls[k].path))
    IN  IF Truthy(status)
        THEN /\ Has(calls[k].input, "stateId")
             /\ \E m \in StatesNamed(status) : calls[k].input.stateId = TeamStates[m].id
        ELSE ~Has(calls[k].input, "stateId")

\* a node with status "backlog" in a document whose defaultStatus is "todo" is
\* created in Backlog, and a node without status in Todo
C16_Witness ==
  /\ doc.defaultStatus = Status_todo
  /\ \E k \in CreateCalls :
       /\ NodeAt(calls[k].path).status = Status_backlog
       /\ calls[k].input.stateId = AllWorkflowStates[1].id
  /\ \E k \in IssueCalls :
       /\ NodeAt(calls[k].path).status = Absent
       /\ calls[k].input.stateId = AllWorkflowStates[2].id

\* no status anywhere: an update patch and a create input without stateId
C16_WitnessNone ==
  /\ doc.defaultStatus = Absent
  /\ \E k \in UpdateCalls : ~Has(calls[k].input, "stateId")
  /\ \E k \in CreateCalls : ~Has(calls[k].input, "stateId")

-----------------------------------------------------------------------------
(* C17 *)

\* the teams whose name or key is this name in some letter case
TeamsNamed(name) ==
  { k \in DOMAIN Teams :
      toLowerCase(name) \in {toLowerCase(Teams[k].name), toLowerCase(Teams[k].key)} }

\* C17: a valid document whose team names no remote team by name or key, in any
\* letter case, ends the run in a not-found error after the teams query alone,
\* with no mutation; otherwise the run works in a team of that name or key.
C17_TeamResolution ==
  /\ (pc # "idle" /\ validateImportData(doc) /\ TeamsNamed(doc.team) = {})
       => /\ pc = "error"
          /\ error.kind \in {"team", "remote"}
          /\ error.kind = "team" => Contains(error.message, doc.team)
          /\ queries = <<"teams">>
          /\ calls = <<>>
          /\ remoteIssues = prev.issues
          /\ remoteLabels = prev.labels
  /\ error.kind = "team" => TeamsNamed(doc.team) = {}
  /\ \A k \in CreateCalls :
       \E m \in TeamsNamed(doc.team) : calls[k].input.teamId = Teams[m].id
  /\ \A k \in LabelCreateCalls :
       \E m \in TeamsNamed(doc.team) :
         \E l \in DOMAIN remoteLabels :
           remoteLabels[l].id = calls[k].id /\ remoteLabels[l].team = Teams[m].id

\* team "x" is no team: the run stops after the teams query, the workspace's
\* issues untouched
C17_Witness ==
  /\ doc.team = TeamName_x
  /\ pc = "error"
  /\ error.kind = "team"
  /\ queries = <<"teams">>
  /\ Len(remoteIssues) > 0

\* "TEAM" is the name of team "Team" in another letter case, "t" its key
C17_WitnessResolved ==
  /\ doc.team \in {TeamName_TEAM, TeamName_t}
  /\ \E k \in CreateCalls : calls[k].input.teamId = Team.id

-----------------------------------------------------------------------------
(* C18 *)

\* the projects whose name is this name in some letter case
ProjectsNamed(name) ==
  { k \in DOMAIN Projects : toLowerCase(Projects[k].name) = toLowerCase(name) }

ProjectMissing == Truthy(doc.project) /\ ProjectsNamed(doc.project) = {}

\* C18: a project that is not found stops nothing, and then no createIssue input
\* has a projectId; when it is found every createIssue input has its id; no
\* update patch ever has a projectId.
C18_ProjectAbsence ==
  /\ (ProjectMissing /\ Fetched /\ pc = "error" /\ last = NoNode)
       => UnknownStatus(doc.defaultStatus)
  /\ \A k \in CreateCalls :
       IF Truthy(doc.project) /\ ~ProjectMissing
       THEN /\ Has(calls[k].input, "projectId")
            /\ \E m \in ProjectsNamed(doc.project) :
                 calls[k].input.projectId = Projects[m].id
       ELSE ~Has(calls[k].input, "projectId")
  /\ \A k \in UpdateCalls : ~Has(calls[k].input, "projectId")

\* project "q" does not exist: the run completes, its issue and sub-issue
\* created outside any project
C18_Witness ==
  /\ doc.project = Project_q
  /\ pc = "done"
  /\ Cardinality(CreateCalls) = 2
  /\ \A k \in CreateCalls : ~Has(calls[k].input, "projectId")

\* project "p" is project "P": creates carry its id, and an update does not
C18_WitnessFound ==
  /\ doc.project = Project_p
  /\ \E k \in CreateCalls : calls[k].input.projectId = Projects[1].id
  /\ UpdateCalls # {}

-----------------------------------------------------------------------------
(* C19 *)

\* the active user a node's assignee names, as an index in getUsers (0: none)
AssigneeOf(node) == findUserByNameOrEmail(getUsers, node.assignee)

\* C19 (as claimed): the createIssue input of a node whose assignee is the
\* email, name or display name of an active user, in any letter case, assigns
\* the issue to that user.
C19_AssigneeApplied ==
  \A k \in CreateCalls :
    LET node == NodeAt(calls[k].path)
    IN  AssigneeOf(node) # 0
          => /\ Has(calls[k].input, "assigneeId")
             /\ calls[k].input.assigneeId = getUsers[AssigneeOf(node)].id

-----------------------------------------------------------------------------
(* C20 *)

\* the first run, without update, has ended on the document that get wrote with
\* --children (a run ended by a failure of the remote service aside)
RoundTripEnded ==
  /\ exportedFrom # NoExport
  /\ exportedFrom.children
  /\ run = 1
  /\ ~update
  /\ pc \in {"done", "error"}
  /\ error.kind # "remote"

\* the remote issue with this identifier
RemoteByIdentifier(identifier) ==
  { k \in DOMAIN remoteIssues : remoteIssues[k].identifier = identifier }

\* C20 (as claimed): importing, without update, the document that get wrote
\* with --children for an issue creates no issue: the run completes with the
\* root skipped as the exported issue and every sub-issue skipped as the child
\* it was exported from.
C20_ExportImportRoundTrip ==
  RoundTripEnded
    => /\ pc = "done"
       /\ CreateCalls = {}
       /\ createdIssues = <<>>
       /\ updatedIssues = <<>>
       /\ remoteIssues = prev.issues
       /\ Len(skippedIssues) = WalkedCount(doc.issues)
       /\ skippedIssues[1].identifier = exportedFrom.identifier
       /\ \A b \in DOMAIN doc.issues[1].subIssues :
            /\ skippedIssues[1 + b].identifier = doc.issues[1].subIssues[b].identifier
            /\ skippedIssues[1 + b].parent = skippedIssues[1].id

-----------------------------------------------------------------------------
(* C21 *)

\* the status command has ended, otherwise than by a failure of the remote service
StatusEnded == statusArgs # NoStatusArgs /\ pc \in {"done", "error"} /\ error.kind # "remote"

\* the issues the command's identifier named when the command began
StatusIssues ==
  { k \in DOMAIN prev.issues : prev.issues[k].identifier = statusArgs.identifier }

\* the workflow states of that issue's own team with the given name, any case
OwnStatesNamed(k) ==
  { m \in DOMAIN AllWorkflowStates :
      /\ AllWorkflowStates[m].team = prev.issues[k].team
      /\ toLowerCase(AllWorkflowStates[m].name) = toLowerCase(statusArgs.statusName) }

\* the command changed the state of issue k to state m, and nothing else
StatusApplied(k, m) ==
  /\ pc = "done"
  /\ Len(calls) = 1
  /\ calls[1].op = "updateIssue"
  /\ calls[1].id = prev.issues[k].id
  /\ DOMAIN calls[1].input = {"stateId"}
  /\ calls[1].input.stateId = AllWorkflowStates[m].id
  /\ remoteIssues = [prev.issues EXCEPT ![k].stateId = AllWorkflowStates[m].id]

StatusRefused ==
  /\ pc = "error"
  /\ calls = <<>>
  /\ remoteIssues = prev.issues

\* C21 (as claimed): statusCommand sends exactly one updateIssue, with stateId
\* alone, when the status names a workflow state of the issue's team in some
\* letter case; when the issue is not found, its team is not given, or no state
\* of the team has the name, it sends no mutation and exits with a failure.
C21_StatusCommand ==
  StatusEnded
    => IF /\ Truthy(statusArgs.statusName)
          /\ statusArgs.teamGiven
          /\ \E k \in StatusIssues : OwnStatesNamed(k) # {}
       THEN \E k \in StatusIssues : \E m \in OwnStatesNamed(k) : StatusApplied(k, m)
       ELSE StatusRefused

-----------------------------------------------------------------------------
(* C22 *)

\* a node is about to be matched
MatchAttempted == pc \in {"issue", "subIssue"}

\* the snapshot has an entry for this issue, with the parent the issue has on
\* the remote
SnapshotAgrees(id) ==
  \E e \in DOMAIN existingIssues :
    /\ existingIssues[e].id = id
    /\ \A r \in DOMAIN remoteIssues :
         remoteIssues[r].id = id => existingIssues[e].parent = remoteIssues[r].parent

\* C22 (as claimed): in a run that is no dry run, whenever a node is about to be
\* matched, the snapshot holds every issue the run has created or updated so
\* far, with the parent that issue now has on the remote.
C22_SnapshotConsistency ==
  (MatchAttempted /\ ~dryRun) => \A k \in IssueCalls : SnapshotAgrees(calls[k].id)

-----------------------------------------------------------------------------
(* C23 *)

\* the number of nodes of these trees, at every depth
RECURSIVE NodeCount(_)
NodeCount(nodes) ==
  IF nodes = <<>> THEN 0
  ELSE 1 + NodeCount(Head(nodes).subIssues) + NodeCount(Tail(nodes))

Reported == Len(createdIssues) + Len(updatedIssues) + Len(skippedIssues)

\* C23 (as claimed): a run that completes has given every node of the document,
\* at any depth, one action, and recorded it in one of the three lists, so the
\* three counts sum to the number of nodes of the document.
C23_EveryNodeOnce ==
  pc = "done" => Reported = NodeCount(doc.issues)

-----------------------------------------------------------------------------
(* C24 *)

\* the issue the node at this path resolved to in this run (by its mutation)
ResolvedTo(path) ==
  { calls[k].id : k \in { m \in IssueCalls : calls[m].path = path } }

\* the parent the document declares for the issue of the node at this path
DeclaredParents(path) ==
  IF IsChild(path) THEN ResolvedTo(<<path[1], 0>>) ELSE {Absent}

RemoteParent(id) == remoteIssues[IndexOfId(remoteIssues, id)].parent

\* no issue is matched by two nodes
OneNodePerIssue ==
  \A k, m \in UpdateCalls : calls[k].id = calls[m].id => k = m

CompletedUpdate == pc = "done" /\ ~dryRun /\ update

\* C24 (as claimed): after a completed import with update, no dry run, in which
\* no issue is matched by two nodes, every matched issue has on the remote the
\* parent the document declares (none for a root); and a patch carries parentId
\* only when the issue's parent before the patch was another.
C24_DeclaredPlacement ==
  (CompletedUpdate /\ OneNodePerIssue)
    => \A k \in UpdateCalls :
         /\ RemoteParent(calls[k].id) \in DeclaredParents(calls[k].path)
         /\ Has(calls[k].input, "parentId")
              => calls[k].before.parent \notin DeclaredParents(calls[k].path)

-----------------------------------------------------------------------------
(* C25 *)

\* the calls sent in this step
NewCalls == { k \in DOMAIN calls' : k > Len(calls) }

\* C25: nodes are taken one at a time in pre-order, a root before its
\* sub-issues and these before the next root; a sub-issue is processed with the
\* parent its root has already resolved to; all calls of a step are for the node
\* of that step and follow every earlier call; the queries precede them all.
C25_ParentBeforeChildren ==
  [][ /\ (last' # last /\ last' # NoNode)
           => /\ last'.path = <<i, j>>
              /\ IF last = NoNode THEN last'.path = <<1, 0>>
                 ELSE PreorderBefore(last'.path) = PreorderBefore(last.path) + 1
              /\ IsChild(last'.path)
                   => /\ last.path \in {<<i, 0>>, <<i, j - 1>>}
                      /\ last'.parentId = parentIssue.id
                      /\ \A k \in NewCalls :
                           calls'[k].op = "createIssue" => calls'[k].parentId = parentIssue.id
      /\ calls' # <<>>
           => /\ Len(calls') >= Len(calls)
              /\ SubSeq(calls', 1, Len(calls)) = calls
              /\ \A k \in NewCalls : calls'[k].path = last'.path /\ last' # last
      /\ (queries' # queries /\ queries' # <<>>) => (calls = <<>> /\ last = NoNode) ]_vars

\* two roots with a sub-issue each, in document order: each root is created
\* before its sub-issue is created or moved under it
C25_Witness ==
  /\ pc = "done"
  /\ Len(calls) = 4
  /\ calls[1].path = <<1, 0>> /\ calls[2].path = <<1, 1>>
  /\ calls[3].path = <<2, 0>> /\ calls[4].path = <<2, 1>>
  /\ \A k \in 1..3 : calls[k].op = "createIssue"
  /\ calls[2].input.parentId = calls[1].id
  /\ calls[4].op = "updateIssue"
  /\ calls[4].input.parentId = calls[3].id

-----------------------------------------------------------------------------
(* C26 *)

\* the snapshot has been fetched and no node has been processed yet
SnapshotFetched == Fetched /\ last = NoNode

\* C26 (as claimed): the snapshot fetched at the start of the run holds every
\* issue of the resolved team that is on the remote, and no issue of another
\* team, however many issues the workspace has.
C26_SnapshotComplete ==
  SnapshotFetched
    => { existingIssues[e].id : e \in DOMAIN existingIssues }
         = { remoteIssues[r].id :
               r \in { n \in DOMAIN remoteIssues : remoteIssues[n].team = ResolvedTeamId } }

-----------------------------------------------------------------------------
(* C27 *)

\* a real run has completed on the document, the update flag and the workspace
\* that the run before it, a dry run, completed on
RealAfterDryRun ==
  /\ pc = "done"
  /\ ~dryRun
  /\ prev.dryRun
  /\ prev.outcome = "done"

\* C27 (as claimed): the dry run records for each node the action the real run
\* of the same document on the same workspace takes, so the created, updated
\* and skipped counts of the two runs are equal.
C27_DryRunPredicts ==
  RealAfterDryRun
    => /\ Len(createdIssues) = prev.created
       /\ Len(updatedIssues) = prev.updated
       /\ Len(skippedIssues) = prev.skipped

-----------------------------------------------------------------------------
(* C28 *)

\* the issues query at the start of this run returned every issue of the workspace
StartSnapshotComplete == issuesAhead + Len(prev.issues) <= IssuesFirst

\* the remote holds, as the step begins, an issue of the team with this title
\* in some letter case under this parent
RemoteHolds(title, parentId) ==
  \E r \in DOMAIN remoteIssues :
    /\ remoteIssues[r].team = ResolvedTeamId
    /\ toLowerCase(remoteIssues[r].title) = toLowerCase(title)
    /\ remoteIssues[r].parent = parentId

\* C28 (as claimed): in a run that is no dry run and whose start snapshot is
\* complete, createIssue is never sent for a node without identifier while the
\* remote holds an issue of the team with the node's title under the same parent
\* (none for a root), whether it was there before the run, was created in it
\* or was moved there in it.
C28_NoDuplicate ==
  [][ (~dryRun /\ StartSnapshotComplete)
        => \A k \in NewCalls :
             (calls'[k].op = "createIssue" /\ ~Truthy(NodeAt(calls'[k].path).identifier))
               => ~RemoteHolds(NodeAt(calls'[k].path).title, calls'[k].parentId) ]_vars

\* the same, for the steps before which no issue has been moved in the run
C28_NoMoveBefore ==
  [][ (~dryRun /\ StartSnapshotComplete
         /\ \A m \in UpdateCalls : ~Has(calls[m].input, "parentId"))
        => \A k \in NewCalls :
             (calls'[k].op = "createIssue" /\ ~Truthy(NodeAt(calls'[k].path).identifier))
               => ~RemoteHolds(NodeAt(calls'[k].path).title, calls'[k].parentId) ]_vars

-----------------------------------------------------------------------------
(* C29 *)

\* the run has stopped on the status of the node at last.path
NodeStatusAbort == pc = "error" /\ error.kind = "status" /\ last.action = "throw"

\* C29 (as claimed): when a node's status stops the run, no mutation has been
\* sent for that node, no createLabel, createIssue or updateIssue; when the
\* defaultStatus stops it, no mutation has been sent at all.
C29_StatusAbortCostsNothing ==
  /\ NodeStatusAbort => \A k \in DOMAIN calls : calls[k].path # last.path
  /\ (pc = "error" /\ error.kind = "status" /\ last = NoNode) => calls = <<>>

-----------------------------------------------------------------------------
(* C30 *)

\* the team of the issue with this id on the remote
RemoteTeam(id) == remoteIssues[IndexOfId(remoteIssues, id)].team

\* the issues of other teams that were on the remote when the run began
ForeignIssues == { r \in DOMAIN prev.issues : prev.issues[r].team # ResolvedTeamId }

\* C30: every updateIssue is for an issue of the resolved team, every
\* createIssue input has the resolved team's id, no issue of another team is
\* skipped as a match or given as a parent, and the issues of other teams stay
\* as they were, whatever identifiers the document names.
C30_TeamIsolation ==
  (pc # "idle" /\ getTeamByName(doc.team) # 0)
    => /\ \A k \in UpdateCalls : calls[k].before.team = ResolvedTeamId
       /\ \A k \in CreateCalls : calls[k].input.teamId = ResolvedTeamId
       /\ \A k \in IssueCalls :
            Has(calls[k].input, "parentId")
              => RemoteTeam(calls[k].input.parentId) = ResolvedTeamId
       /\ \A s \in DOMAIN skippedIssues : RemoteTeam(skippedIssues[s].id) = ResolvedTeamId
       /\ (Truthy(parentIssue.id) /\ parentIssue.id # DryRunId)
            => RemoteTeam(parentIssue.id) = ResolvedTeamId
       /\ \A r \in ForeignIssues : remoteIssues[r] = prev.issues[r]

\* a node with identifier "o-1" is imported with update into team "T" while O-1
\* is an issue of team "Other": the node is created in team "T" and O-1 is as it was
C30_Witness ==
  /\ pc = "done"
  /\ update
  /\ \E r \in ForeignIssues : toLowerCase(prev.issues[r].identifier) = Identifier_o1
  /\ \E k \in CreateCalls :
       /\ NodeAt(calls[k].path).identifier = Identifier_o1
       /\ calls[k].input.teamId = Team.id

====
